---- MODULE Spec2Model ----
(***************************************************************************)
(* Matching-and-ranking engine of the ai-job-assistant backend:            *)
(*   services/ai_service.py             similarity scorer and aggregator   *)
(*   services/recommendation_service.py preference evaluator, job ranker,  *)
(*                                      job / job_user_links stores        *)
(*   services/resume_fit_service.py     fit computation and 24h fit cache  *)
(*                                                                         *)
(* Conventions                                                             *)
(*   - an optional value (Python None or a document that is absent) is a   *)
(*     sequence of length 0, a present one a sequence of length 1;         *)
(*   - an embedding is a sequence of integers; <<>> stands for both None   *)
(*     and [] (the code only ever tests vectors for truthiness);           *)
(*   - a real number is an exact fraction [num, den] with den > 0; the     *)
(*     vectors of the model have integer norms so that math.sqrt is exact; *)
(*   - a ranked score is an integer number of hundredths (round(x, 2));    *)
(*   - time is a number of hours.                                          *)
(***************************************************************************)
EXTENDS Integers, Sequences, FiniteSets, TLC

VARIABLES
    now,        \* datetime.utcnow(), in hours
    jobs,       \* jobs_collection: job id -> optional job document
    profiles,   \* profiles_collection: user id -> optional profile document
    links,      \* job_user_collection: <<user, job>> -> optional link document
    last,       \* the call that ended in this step, with its inputs and result
    rankIn,     \* inputs of a stand-alone _rank_jobs call
    scoreIn,    \* inputs of a score_resume_against_job call
    scoreOut,   \* its result
    inflight,   \* the get_or_create_resume_fit calls that run concurrently
    cosIn,      \* the two vectors of a stand-alone _cosine_similarity call
    monitor,    \* job_monitor: _monitor_task, the tasks created, and a stop call that is waiting
    catalog,    \* jobs_collection as job_monitor and upsert_job see it: _id -> document
    sweep,      \* the run_monitor_cycle call in flight
    upserts     \* the upsert_job calls in flight: call -> where it stands

vars == <<now, jobs, profiles, links, last, rankIn, scoreIn, scoreOut, inflight, cosIn, monitor, catalog, sweep, upserts>>

-----------------------------------------------------------------------------
(* Bounds of the model                                                     *)

MaxTime == 25

\* The monitor tasks one behaviour creates, the cycles one task runs.
MaxTasks == 4
MaxCycles == 3

\* The run_monitor_cycle calls of one behaviour, and the hours they span.
MaxSweeps == 2
SweepHours == 1

\* The documents jobs_collection holds in one behaviour of upsert_job calls.
MaxRecords == 3

-----------------------------------------------------------------------------
(* Program constants                                                       *)

CACHE_TTL_HOURS == 24
STALE_AFTER_DAYS == 14
HOURS_PER_DAY == 24
MONITOR_FETCH_LIMIT == 200
SIMILARITY_WEIGHT == 70
PREFERENCE_BONUS == 10
DEFAULT_LIMIT == 20
MAX_CANDIDATES == 150

-----------------------------------------------------------------------------
(* Arithmetic                                                              *)

Max(a, b) == IF a >= b THEN a ELSE b
Min(a, b) == IF a <= b THEN a ELSE b

\* The last element of a non-empty sequence, the sequence without it.
Front(s) == SubSeq(s, 1, Len(s) - 1)
Last(s) == s[Len(s)]

Range(s) == {s[i] : i \in DOMAIN s}

Some(x) == <<x>>
None == <<>>
IsSome(o) == Len(o) > 0
Get(o) == o[1]

\* Python's round(): the nearest integer to n/d (d > 0), a tie going to the
\* even neighbour.
RoundHalfEven(n, d) ==
    LET q == n \div d
        r == n % d
    IN  IF 2 * r < d THEN q
        ELSE IF 2 * r > d THEN q + 1
        ELSE IF q % 2 = 0 THEN q ELSE q + 1

RECURSIVE SqrtSearch(_, _, _)
SqrtSearch(n, lo, hi) ==
    IF lo >= hi THEN lo
    ELSE LET mid == (lo + hi + 1) \div 2
         IN  IF mid * mid <= n THEN SqrtSearch(n, mid, hi) ELSE SqrtSearch(n, lo, mid - 1)

\* math.sqrt on the perfect squares the model's vectors produce.
Sqrt(n) == SqrtSearch(n, 0, Min(n, 46340))

RECURSIVE DotUpTo(_, _, _)
DotUpTo(a, b, k) == IF k = 0 THEN 0 ELSE DotUpTo(a, b, k - 1) + a[k] * b[k]

\* sum(x * y for x, y in zip(a, b)): zip stops at the shorter vector.
Dot(a, b) == DotUpTo(a, b, Min(Len(a), Len(b)))

\* dot / (norm_a * norm_b), 0.0 for a zero norm
Cosine(dot, norm_a, norm_b) ==
    IF norm_a = 0 \/ norm_b = 0
    THEN [num |-> 0, den |-> 1]
    ELSE [num |-> dot, den |-> norm_a * norm_b]

\* _cosine_similarity / cosine_similarity, as an exact fraction.
cosine_similarity(a, b) == Cosine(Dot(a, b), Sqrt(Dot(a, a)), Sqrt(Dot(b, b)))

\* x < y for fractions
FractionLess(x, y) == x.num * y.den < y.num * x.den

-----------------------------------------------------------------------------
(* _cosine_similarity on Python floats. A vector is a list of small        *)
(* integers and a common power of two: component i is ints[i] * 2^exp. On  *)
(* such numbers binary64 arithmetic is exact as long as a result stays     *)
(* within the exponent range; below it the result is 0.0, above it inf.    *)

\* binary64: the least and the greatest exponent of a finite number
FLOAT_MIN_EXP == -1074
FLOAT_MAX_EXP == 1023

\* |m| < 2^MantissaBits for every integer m the model multiplies by 2^exp
MantissaBits == 20

\* m * 2^e rounds to 0.0 for every such m
Underflows(e) == e + MantissaBits < FLOAT_MIN_EXP

\* m * 2^e is inf for every such m # 0
Overflows(e) == e > FLOAT_MAX_EXP

FloatZero == [kind |-> "num", num |-> 0, den |-> 1]
FloatInf(sign) == [kind |-> "inf", num |-> sign, den |-> 1]
FloatNaN == [kind |-> "nan", num |-> 0, den |-> 1]

\* sum(x * y for x, y in zip(a, b)) when every product overflows unless it is 0
OverflowedSum(a, b, n) ==
    IF (\E i \in 1..n : a[i] * b[i] > 0) /\ (\E i \in 1..n : a[i] * b[i] < 0)
    THEN FloatNaN
    ELSE IF \E i \in 1..n : a[i] * b[i] > 0 THEN FloatInf(1)
    ELSE IF \E i \in 1..n : a[i] * b[i] < 0 THEN FloatInf(-1)
    ELSE FloatZero

\* dot = sum(x * y for x, y in zip(a, b)), as kind and integer multiple of
\* 2^(a.exp + b.exp)
FloatDot(a, b) ==
    IF Underflows(a.exp + b.exp) THEN FloatZero
    ELSE IF Overflows(a.exp + b.exp)
    THEN OverflowedSum(a.ints, b.ints, Min(Len(a.ints), Len(b.ints)))
    ELSE [kind |-> "num", num |-> Dot(a.ints, b.ints), den |-> 1]

\* math.sqrt(sum(x * x for x in a)), as kind and integer multiple of 2^a.exp
FloatNorm(a) ==
    IF Dot(a.ints, a.ints) = 0 \/ Underflows(2 * a.exp) THEN FloatZero
    ELSE IF Overflows(2 * a.exp) THEN FloatInf(1)
    ELSE [kind |-> "num", num |-> Sqrt(Dot(a.ints, a.ints)), den |-> 1]

\* dot / (norm_a * norm_b) for non-zero norms
FloatQuotient(dot, norm_a, norm_b) ==
    IF dot.kind = "nan" THEN FloatNaN
    ELSE IF norm_a.kind = "inf" \/ norm_b.kind = "inf"
    THEN IF dot.kind = "inf" THEN FloatNaN ELSE FloatZero
    ELSE [kind |-> "num", num |-> dot.num, den |-> norm_a.num * norm_b.num]

\* A quotient without the test for a zero norm.
FloatGuarded_NoGuard(dot, norm_a, norm_b) ==
    IF norm_a.num = 0 \/ norm_b.num = 0
    THEN FloatNaN
    ELSE FloatQuotient(dot, norm_a, norm_b)

\* if norm_a == 0 or norm_b == 0: return 0.0
FloatGuarded(dot, norm_a, norm_b) ==
    IF norm_a.num = 0 \/ norm_b.num = 0
    THEN FloatZero
    ELSE FloatQuotient(dot, norm_a, norm_b)

\* no vectors: two empty lists
NoCosIn == [a |-> [ints |-> <<>>, exp |-> 0], b |-> [ints |-> <<>>, exp |-> 0]]

\* _cosine_similarity(a, b) on floats
_cosine_similarity(a, b) == FloatGuarded(FloatDot(a, b), FloatNorm(a), FloatNorm(b))

-----------------------------------------------------------------------------
(* Strings: str.lower, str.strip and the ordering used by sorted(), on the *)
(* strings the model draws its inputs from                                 *)

Lower(s) ==
    CASE s = "Python" -> "python"
      [] s = "SQL" -> "sql"
      [] s = "Backend" -> "backend"
      [] s = "Fintech" -> "fintech"
      [] s = "Senior" -> "senior"
      [] s = "Startup" -> "startup"
      [] s = "Closed" -> "closed"
      [] OTHER -> s

Strip(s) ==
    CASE s = " " -> ""
      [] s = " docker " -> "docker"
      [] s = " sql" -> "sql"
      [] OTHER -> s

\* Code-point order of the strings above: blanks, upper case, lower case.
StrOrder ==
    <<"", " ", " docker ", "Backend", "Fintech", "Python", "SQL", "Senior", "Startup",
      "adtech", "backend", "data", "docker", "enterprise", "fintech", "junior",
      "python", "remote", "senior", "sql", "startup">>

StrIndex(s) == CHOOSE i \in DOMAIN StrOrder : StrOrder[i] = s

\* The least string of a non-empty set.
MinString(S) == CHOOSE x \in S : \A y \in S : StrIndex(x) <= StrIndex(y)

RECURSIVE SortedStrings(_)
\* m, then the rest of S in order
SortedFrom(m, S) == <<m>> \o SortedStrings(S \ {m})

\* sorted(S) for a set of distinct strings
SortedStrings(S) == IF S = {} THEN <<>> ELSE SortedFrom(MinString(S), S)

LowerSet(seq) == {Lower(seq[i]) : i \in DOMAIN seq}

-----------------------------------------------------------------------------
(* The embedding provider                                                  *)

\* What embed_for_matching returns for one text when it does not raise. The
\* text of a job or a profile (_job_to_text, _profile_to_text) is a field of
\* the document; "" is the text of a document with nothing to say.
EmbeddingOf(text) ==
    CASE text = "resume_up" -> <<0, 1>>
      [] text = "job_up" -> <<0, 1>>
      [] text = "job_near_a" -> <<51, 1300>>
      [] text = "job_near_b" -> <<53, 1404>>
      [] text = "job_diag" -> <<3, 4>>
      [] text = "job_down" -> <<0, -1>>
      [] text = "job_flat" -> <<0, 0>>
      [] text = "python" -> <<1, 0, 0, 0>>
      [] text = "sql" -> <<0, 1, 0, 0>>
      [] text = "docker" -> <<0, 0, 1, 0>>
      [] text = "py3" -> <<18, 6, 11, 12>>
      [] text = "python3" -> <<18, 6, 12, 11>>
      [] text = "anti" -> <<-1, 0, 0, 0>>
      [] text = "legacy" -> <<-3, 0, 4, 0>>
      [] text = "bsc" -> <<0, 0, 0, 1>>
      [] text = "msc" -> <<0, 4, 0, 3>>
      [] text = "cv" -> <<1, 1, 1, 1>>
      [] text = "backend work" -> <<3, 4, 0, 0>>
      [] text = "python acme" -> <<4, 3, 0, 0>>
      [] OTHER -> <<>>

\* _embed_text: None for a blank text, else the provider's first vector.
\* The provider is called exactly when the text is not blank.
_embed_text(text) == IF text = "" THEN <<>> ELSE EmbeddingOf(text)

EmbedCalls(text) == IF text = "" THEN 0 ELSE 1

-----------------------------------------------------------------------------
(* Fit computation (resume_fit_service.py)                                 *)

\* One pass of the loop of _normalize_skill_set: cleaned = value.strip()
AppendSkill(unique, cleaned) ==
    IF cleaned # "" /\ Lower(cleaned) \notin LowerSet(unique)
    THEN Append(unique, cleaned)
    ELSE unique

RECURSIVE _normalize_skill_set(_)
_normalize_skill_set(values) ==
    IF values = <<>> THEN <<>>
    ELSE AppendSkill(_normalize_skill_set(Front(values)), Strip(Last(values)))

_collect_profile_skills(profile) == profile.skills

\* {item.lower(): item}: a later item with the same key replaces an earlier one.
LowerDict(seq, key) ==
    seq[CHOOSE i \in DOMAIN seq :
            Lower(seq[i]) = key /\ \A j \in DOMAIN seq : Lower(seq[j]) = key => j <= i]

\* matched and gaps for the key sets pkeys and jkeys
SkillOverlapOf(profile_skills, job_skills, pkeys, jkeys) ==
    [matched |-> SortedStrings({LowerDict(profile_skills, k) : k \in pkeys \cap jkeys}),
     gaps |-> SortedStrings({LowerDict(job_skills, k) : k \in jkeys \ pkeys})]

_skill_overlap(profile_skills, job_skills) ==
    SkillOverlapOf(profile_skills, job_skills, LowerSet(profile_skills), LowerSet(job_skills))

\* A fit score that leaves the skills out: int(round(similarity * 60))
FitScore_SimilarityOnly(sim, matched, total) == RoundHalfEven(60 * sim.num, sim.den)

\* int(round(similarity * 60 + match_ratio * 40)) for similarity = sim.num/sim.den
\* and match_ratio = matched/total (0 when the job has no skills)
FitScore(sim, matched, total) ==
    IF total = 0
    THEN RoundHalfEven(60 * sim.num, sim.den)
    ELSE RoundHalfEven(60 * sim.num * total + 40 * matched * sim.den, sim.den * total)

\* int(x * 100) for a fraction x >= 0
Percent(sim) == (100 * sim.num) \div sim.den

\* max(0.0, cosine) when both vectors are there, else 0.0
FitSimilarity(resume_vector, job_vector, cos) ==
    IF resume_vector # <<>> /\ job_vector # <<>> /\ cos.num > 0
    THEN cos ELSE [num |-> 0, den |-> 1]

\* summary_bits, the fallback sentence when there is none
FitSummary(bits) ==
    IF bits = <<>> THEN <<[kind |-> "no_overlap", pct |-> 0, items |-> <<>>]>> ELSE bits

\* The payload of compute_resume_fit for a similarity and an overlap.
FitRecord(similarity, overlap, job_skills, t) ==
    [score |-> Min(100, Max(0, FitScore(similarity, Len(overlap.matched), Len(job_skills)))),
     summary |-> FitSummary(
         (IF similarity.num # 0
          THEN <<[kind |-> "similarity", pct |-> Percent(similarity), items |-> <<>>]>>
          ELSE <<>>)
         \o (IF overlap.matched # <<>>
             THEN <<[kind |-> "matched", pct |-> 0, items |-> overlap.matched]>>
             ELSE <<>>)
         \o (IF overlap.gaps # <<>>
             THEN <<[kind |-> "gaps", pct |-> 0,
                     items |-> SubSeq(overlap.gaps, 1, Min(5, Len(overlap.gaps)))]>>
             ELSE <<>>)),
     matched |-> overlap.matched,
     gaps |-> overlap.gaps,
     last_calculated |-> Some(t),
     updated_at |-> None]

FitOverlap(similarity, profile_skills, job_skills, t) ==
    FitRecord(similarity, _skill_overlap(profile_skills, job_skills), job_skills, t)

\* compute_resume_fit after the profile and both embeddings are at hand
FitPayload(profile, job, resume_vector, job_vector, t) ==
    FitOverlap(FitSimilarity(resume_vector, job_vector,
                             cosine_similarity(resume_vector, job_vector)),
               _normalize_skill_set(_collect_profile_skills(profile)),
               _normalize_skill_set(job.skills), t)

-----------------------------------------------------------------------------
(* Documents and stores                                                    *)

Users == {"u1"}
JobIds == {"j1", "j2"}

\* The instants at which the clock is read: at and just after each multiple
\* of the TTL, so that ages of 0, 1, 23, 24 and 25 hours all occur.
Instants ==
    {h \in 0..MaxTime : h % CACHE_TTL_HOURS \in {0, 1}}

NoPreferences ==
    [role_families |-> <<>>, seniority_levels |-> <<>>, company_sizes |-> <<>>,
     industries_like |-> <<>>, industries_avoid |-> <<>>, locations |-> <<>>,
     remote_ok |-> FALSE]

JobDoc(text, skills, categories, levels, industry, company_size) ==
    [text |-> text, skills |-> skills, categories |-> categories, levels |-> levels,
     metadata |-> Some([industry |-> industry, company_size |-> company_size]),
     locations |-> <<"remote">>, work_modes |-> <<"remote">>,
     status |-> "active", last_seen_active |-> 0,
     embedding |-> <<>>, embedding_updated_at |-> None]

ProfileDoc(text, skills, preferences) ==
    [text |-> text, skills |-> skills, preferences |-> preferences,
     resume_embedding |-> <<>>, resume_embedding_updated_at |-> None]

\* One link document of job_user_collection.
\* (its own updated_at / created_at stamps are read by no operation and are
\* left out; the cache entry's updated_at is a field of resume_score_cache)
EmptyLink == [state |-> None, resume_score_cache |-> None]

\* The record of a call: what it was given, how it ended, what it touched.
NoCall ==
    [op |-> "none", user |-> "", job |-> "", at |-> 0,
     outcome |-> "", hit |-> FALSE, found |-> None, result |-> None, items |-> <<>>,
     cache_reads |-> 0, job_reads |-> 0, profile_reads |-> 0,
     embed_calls |-> 0, cache_writes |-> 0, fails |-> {}, pool |-> <<>>]

\* The concurrent calls, and the state of one: where it stands (pc) and the
\* values of its local variables.
Calls == {"a", "b"}

IdleCall ==
    [pc |-> "idle", user |-> "", job |-> "", cached |-> None, job_doc |-> None,
     profile |-> None, resume_vector |-> <<>>, job_vector |-> <<>>, payload |-> None,
     outcome |-> "", result |-> None, written_at |-> None]

NoInflight == [c \in Calls |-> IdleCall]

-----------------------------------------------------------------------------
(* Embedding caches on the profile and the job (recommendation_service.py) *)

\* The result of an _ensure_*_embedding call that did not raise.
Ensured(vector, calls, store) ==
    [raised |-> FALSE, vector |-> vector, calls |-> calls, store |-> store]

\* The result of one that raised after calling the provider.
EnsureRaised(store) == [raised |-> TRUE, vector |-> <<>>, calls |-> 1, store |-> store]

\* update_one on the profile when the provider returned a vector
StoreResumeEmbedding(store, u, vector, t) ==
    IF vector # <<>>
    THEN [store EXCEPT ![u] = Some([Get(store[u]) EXCEPT !.resume_embedding = vector,
                                                        !.resume_embedding_updated_at = Some(t)])]
    ELSE store

EmbedResume(store, u, vector, calls, t) ==
    Ensured(vector, calls, StoreResumeEmbedding(store, u, vector, t))

\* _ensure_resume_embedding(profile), the profile being the document of user u.
\* fail: the provider raises if it is called. The result names the vector, the
\* number of provider calls, whether the call raised, and the profile store
\* after the call.
_ensure_resume_embedding(store, u, fail, t) ==
    IF Get(store[u]).resume_embedding # <<>>
    THEN Ensured(Get(store[u]).resume_embedding, 0, store)
    ELSE IF EmbedCalls(Get(store[u]).text) > 0 /\ fail
    THEN EnsureRaised(store)
    ELSE EmbedResume(store, u, _embed_text(Get(store[u]).text),
                     EmbedCalls(Get(store[u]).text), t)

\* update_one without upsert: a document that is gone is not recreated.
StoreJobEmbedding(store, j, vector, t) ==
    IF vector # <<>> /\ IsSome(store[j])
    THEN [store EXCEPT ![j] = Some([Get(store[j]) EXCEPT !.embedding = vector,
                                                        !.embedding_updated_at = Some(t)])]
    ELSE store

EmbedJob(store, j, vector, calls, t) ==
    Ensured(vector, calls, StoreJobEmbedding(store, j, vector, t))

\* An _ensure_job_embedding that does not look at the cached vector.
_ensure_job_embedding_Uncached(store, j, job, fail, t) ==
    IF EmbedCalls(job.text) > 0 /\ fail
    THEN EnsureRaised(store)
    ELSE EmbedJob(store, j, _embed_text(job.text), EmbedCalls(job.text), t)

\* _ensure_job_embedding(job), the job being the snapshot `job` of document j.
_ensure_job_embedding(store, j, job, fail, t) ==
    IF job.embedding # <<>>
    THEN Ensured(job.embedding, 0, store)
    ELSE IF EmbedCalls(job.text) > 0 /\ fail
    THEN EnsureRaised(store)
    ELSE EmbedJob(store, j, _embed_text(job.text), EmbedCalls(job.text), t)

\* The embedding accessors resume_fit_service calls on recommendation_service.
get_resume_embedding(store, u, fail, t) == _ensure_resume_embedding(store, u, fail, t)

get_job_embedding(store, j, job, fail, t) == _ensure_job_embedding(store, j, job, fail, t)

-----------------------------------------------------------------------------
(* Fit cache (resume_fit_service.py, recommendation_service.py)            *)

\* The stored entry of (u, j), or None.
get_cached_resume_score(store, u, j) ==
    IF IsSome(store[<<u, j>>]) THEN Get(store[<<u, j>>]).resume_score_cache ELSE None

get_job_detail(store, j) == IF j \in DOMAIN store THEN store[j] ELSE None

_load_profile(store, u) == store[u]

\* A cache_resume_score that stores the payload as handed in, without the stamp.
cache_resume_score_Unstamped(store, u, j, payload, t) ==
    LET doc == IF IsSome(store[<<u, j>>]) THEN Get(store[<<u, j>>]) ELSE EmptyLink
    IN  [store EXCEPT ![<<u, j>>] = Some([doc EXCEPT !.resume_score_cache = Some(payload)])]

\* A cache_resume_score that merges into the entry already stored: the older
\* last_calculated stays.
cache_resume_score_Merging(store, u, j, payload, t) ==
    LET doc == IF IsSome(store[<<u, j>>]) THEN Get(store[<<u, j>>]) ELSE EmptyLink
        stored == [payload EXCEPT !.updated_at = Some(t),
                                  !.last_calculated =
                                      IF IsSome(doc.resume_score_cache)
                                      THEN Get(doc.resume_score_cache).last_calculated
                                      ELSE payload.last_calculated]
    IN  [store EXCEPT ![<<u, j>>] = Some([doc EXCEPT !.resume_score_cache = Some(stored)])]

\* cache_resume_score: $set resume_score_cache = payload + updated_at, upsert.
cache_resume_score(store, u, j, payload, t) ==
    LET stored == [payload EXCEPT !.updated_at = Some(t)]
        doc == IF IsSome(store[<<u, j>>]) THEN Get(store[<<u, j>>]) ELSE EmptyLink
    IN  [store EXCEPT ![<<u, j>>] = Some([doc EXCEPT !.resume_score_cache = Some(stored)])]

\* A timestamp lookup that reads last_calculated only.
CacheTimestamp_LastCalculated(cached) == cached.last_calculated

\* cached.get("updated_at") or cached.get("last_calculated")
CacheTimestamp(cached) ==
    IF IsSome(cached.updated_at) THEN cached.updated_at ELSE cached.last_calculated

\* A freshness test that still accepts an entry of exactly the TTL.
IsFresh_Inclusive(cached, t) ==
    /\ IsSome(CacheTimestamp(cached))
    /\ t - Get(CacheTimestamp(cached)) <= CACHE_TTL_HOURS

\* age < timedelta(hours=CACHE_TTL_HOURS)
IsFresh(cached, t) ==
    /\ IsSome(CacheTimestamp(cached))
    /\ t - Get(CacheTimestamp(cached)) < CACHE_TTL_HOURS

\* compute_resume_fit once both embeddings are at hand
FitWithBoth(pstore, u, job, rv, jv, t) ==
    IF jv.raised
    THEN [outcome |-> "UpstreamError", payload |-> None, profiles |-> rv.store,
          jobs |-> jv.store, embed_calls |-> rv.calls + jv.calls]
    ELSE [outcome |-> "ok",
          payload |-> Some(FitPayload(Get(_load_profile(pstore, u)), job,
                                      rv.vector, jv.vector, t)),
          profiles |-> rv.store, jobs |-> jv.store,
          embed_calls |-> rv.calls + jv.calls]

\* compute_resume_fit once the resume embedding was asked for
FitWithResume(pstore, jstore, u, j, job, rv, failJob, t) ==
    IF rv.raised
    THEN [outcome |-> "UpstreamError", payload |-> None, profiles |-> rv.store,
          jobs |-> jstore, embed_calls |-> rv.calls]
    ELSE FitWithBoth(pstore, u, job, rv, get_job_embedding(jstore, j, job, failJob, t), t)

\* A compute_resume_fit that scores a missing profile as an empty one.
compute_resume_fit_NoGuard(pstore, jstore, u, j, job, failResume, failJob, t) ==
    [outcome |-> "ok",
     payload |-> Some(FitPayload(ProfileDoc("", <<>>, None), job, <<>>, <<>>, t)),
     profiles |-> pstore, jobs |-> jstore, embed_calls |-> 0]

\* compute_resume_fit(u, job): the outcome, the payload, and the stores after it.
compute_resume_fit(pstore, jstore, u, j, job, failResume, failJob, t) ==
    IF ~IsSome(_load_profile(pstore, u))
    THEN [outcome |-> "ProfileMissing", payload |-> None, profiles |-> pstore,
          jobs |-> jstore, embed_calls |-> 0]
    ELSE FitWithResume(pstore, jstore, u, j, job,
                       get_resume_embedding(pstore, u, failResume, t), failJob, t)

\* The record of a get_or_create_resume_fit call that found `cached`.
FitCallRecord(u, j, t, cached) ==
    [NoCall EXCEPT !.op = "get_or_create_resume_fit", !.user = u, !.job = j,
                   !.at = t, !.cache_reads = 1, !.found = cached]

\* get_or_create_resume_fit after compute_resume_fit ended with `fit`: the
\* payload is cached only when the computation returned.
FitComputed(lstore, u, j, t, cached, fit) ==
    [call |-> [FitCallRecord(u, j, t, cached) EXCEPT
                   !.outcome = fit.outcome, !.result = fit.payload,
                   !.job_reads = 1, !.profile_reads = 1,
                   !.embed_calls = fit.embed_calls,
                   !.cache_writes = IF fit.outcome = "ok" THEN 1 ELSE 0],
     profiles |-> fit.profiles, jobs |-> fit.jobs,
     links |-> IF fit.outcome = "ok"
               THEN cache_resume_score(lstore, u, j, Get(fit.payload), t)
               ELSE lstore]

\* get_or_create_resume_fit after the cache lookup returned `cached`
FitLookedUp(pstore, jstore, lstore, u, j, failResume, failJob, t, cached) ==
    IF IsSome(cached) /\ IsFresh(Get(cached), t)
    THEN [call |-> [FitCallRecord(u, j, t, cached) EXCEPT
                        !.outcome = "ok", !.hit = TRUE, !.result = cached],
          profiles |-> pstore, jobs |-> jstore, links |-> lstore]
    ELSE IF ~IsSome(get_job_detail(jstore, j))
    THEN [call |-> [FitCallRecord(u, j, t, cached) EXCEPT
                        !.outcome = "NotFound", !.job_reads = 1],
          profiles |-> pstore, jobs |-> jstore, links |-> lstore]
    ELSE FitComputed(lstore, u, j, t, cached,
                     compute_resume_fit(pstore, jstore, u, j, Get(get_job_detail(jstore, j)),
                                        failResume, failJob, t))

\* get_or_create_resume_fit(u, j): the record of the call and the stores after it.
get_or_create_resume_fit(pstore, jstore, lstore, u, j, failResume, failJob, t) ==
    FitLookedUp(pstore, jstore, lstore, u, j, failResume, failJob, t,
                get_cached_resume_score(lstore, u, j))

-----------------------------------------------------------------------------
(* Preference evaluator and job ranker (recommendation_service.py)         *)

Reason(kind) == [kind |-> kind, pct |-> 0, items |-> <<>>]

_extract_profile_skills(profile) == profile.skills

\* The lower-cased industries and company size of the job's metadata.
JobIndustries(job) ==
    IF IsSome(job.metadata) THEN LowerSet(Get(job.metadata).industry) ELSE {}

JobCompanySize(job) ==
    IF IsSome(job.metadata) THEN Lower(Get(job.metadata).company_size) ELSE ""

\* A preference list that is set and shares an element with `have`.
Prefers(wanted, have) == wanted # <<>> /\ have \cap LowerSet(wanted) # {}

Bonus(fired) == IF fired THEN PREFERENCE_BONUS ELSE 0

Note(fired, reason) == IF fired THEN <<reason>> ELSE <<>>

\* A signal whose score is floored at 0.
PreferenceSignal_Floored(role, seniority, size, like, avoid, overlap) ==
    [score |-> Max(0, Bonus(role) + Bonus(seniority) + Bonus(size) + Bonus(like)
                      - Bonus(avoid) + Bonus(overlap # {})),
     reasons |-> Note(role, Reason("Matches preferred role focus"))
                 \o Note(seniority, Reason("Requested seniority level"))
                 \o Note(size, Reason("Preferred company size"))
                 \o Note(like, Reason("Preferred industry"))
                 \o Note(avoid, Reason("Industry on avoid list"))
                 \o Note(overlap # {}, [kind |-> "Skill overlap", pct |-> 0,
                                        items |-> SortedStrings(overlap)])]

\* The score and the reasons for the rules that fired, in rule order;
\* overlap is the set of skills the job and the profile share.
PreferenceSignal(role, seniority, size, like, avoid, overlap) ==
    [score |-> Bonus(role) + Bonus(seniority) + Bonus(size) + Bonus(like)
               - Bonus(avoid) + Bonus(overlap # {}),
     reasons |-> Note(role, Reason("Matches preferred role focus"))
                 \o Note(seniority, Reason("Requested seniority level"))
                 \o Note(size, Reason("Preferred company size"))
                 \o Note(like, Reason("Preferred industry"))
                 \o Note(avoid, Reason("Industry on avoid list"))
                 \o Note(overlap # {}, [kind |-> "Skill overlap", pct |-> 0,
                                        items |-> SortedStrings(overlap)])]

\* _evaluate_preferences: the additive score and the reasons.
_evaluate_preferences(job, preferences, profile_skills) ==
    PreferenceSignal(
        Prefers(preferences.role_families, LowerSet(job.categories)),
        Prefers(preferences.seniority_levels, LowerSet(job.levels)),
        /\ IsSome(job.metadata)
        /\ JobCompanySize(job) # ""
        /\ Prefers(preferences.company_sizes, {JobCompanySize(job)}),
        Prefers(preferences.industries_like, JobIndustries(job)),
        Prefers(preferences.industries_avoid, JobIndustries(job)),
        LowerSet(job.skills) \cap LowerSet(profile_skills))

\* Both vectors are there and the similarity is positive.
Aligned(resume_vector, job_vector, similarity) ==
    resume_vector # <<>> /\ job_vector # <<>> /\ similarity.num > 0

\* similarity * SIMILARITY_WEIGHT when similarity > 0, else 0.0; as a fraction
SimScore(aligned, similarity) ==
    IF aligned
    THEN [num |-> SIMILARITY_WEIGHT * similarity.num, den |-> similarity.den]
    ELSE [num |-> 0, den |-> 1]

\* A total without the clamp to [0, 100].
TotalScore_Unclamped(sim_score, pref_score) ==
    [num |-> sim_score.num + pref_score * sim_score.den, den |-> sim_score.den]

\* min(100.0, max(0.0, sim_score + pref_score)), as a fraction
TotalScore(sim_score, pref_score) ==
    [num |-> Min(100 * sim_score.den, Max(0, sim_score.num + pref_score * sim_score.den)),
     den |-> sim_score.den]

\* round(total_score, 2), in hundredths
Round2(x) == RoundHalfEven(100 * x.num, x.den)

\* The (job, score, reasons) triple the loop appends.
RankEntry(j, pref, similarity, aligned) ==
    [job |-> j,
     score |-> Round2(TotalScore(SimScore(aligned, similarity), pref.score)),
     reasons |-> pref.reasons
                 \o IF aligned
                    THEN <<[kind |-> "Resume alignment",
                            pct |-> Percent(similarity), items |-> <<>>]>>
                    ELSE <<>>]

RankSimilar(j, pref, resume_vector, job_vector, similarity) ==
    RankEntry(j, pref, similarity, Aligned(resume_vector, job_vector, similarity))

\* The loop body after the job embedding was asked for, with result ev.
RankScored(j, pref, resume_vector, ev) ==
    [raised |-> ev.raised, calls |-> ev.calls, store |-> ev.store,
     entry |-> RankSimilar(j, pref, resume_vector, ev.vector,
                           cosine_similarity(resume_vector, ev.vector))]

\* One pass of the loop body of _rank_jobs for job j with snapshot `job`.
RankOne(store, j, job, preferences, profile_skills, resume_vector, fail, t) ==
    RankScored(j, _evaluate_preferences(job, preferences, profile_skills), resume_vector,
               IF resume_vector # <<>>
               THEN _ensure_job_embedding(store, j, job, fail, t)
               ELSE Ensured(<<>>, 0, store))

\* The loop state after a pass that ended with `one`.
RankAppend(prev, one) ==
    IF one.raised
    THEN [raised |-> TRUE, calls |-> prev.calls + one.calls,
          store |-> one.store, ranked |-> <<>>]
    ELSE [raised |-> FALSE, calls |-> prev.calls + one.calls,
          store |-> one.store, ranked |-> Append(prev.ranked, one.entry)]

\* The pass for job j after the loop state prev; a raise has ended the loop.
RankStep(prev, store, j, preferences, profile_skills, resume_vector, fails, t) ==
    IF prev.raised THEN prev
    ELSE RankAppend(prev, RankOne(prev.store, j, Get(store[j]), preferences, profile_skills,
                                  resume_vector, j \in fails, t))

RECURSIVE RankLoop(_, _, _, _, _, _, _, _)
\* The for loop of _rank_jobs over pool[1..k]; a raise ends it.
RankLoop(store, pool, k, preferences, profile_skills, resume_vector, fails, t) ==
    IF k = 0
    THEN [raised |-> FALSE, calls |-> 0, store |-> store, ranked |-> <<>>]
    ELSE RankStep(RankLoop(store, pool, k - 1, preferences, profile_skills,
                           resume_vector, fails, t),
                  store, pool[k], preferences, profile_skills, resume_vector, fails, t)

\* x put into the sorted list after the entries at position 1..k
InsertAfter(sorted, x, k) ==
    SubSeq(sorted, 1, k) \o <<x>> \o SubSeq(sorted, k + 1, Len(sorted))

RECURSIVE SortByScoreDesc_Unstable(_)
\* A descending sort that puts a later job ahead of its equals.
SortByScoreDesc_Unstable(seq) ==
    IF seq = <<>> THEN <<>>
    ELSE InsertAfter(SortByScoreDesc_Unstable(Front(seq)), Last(seq),
                     Cardinality({i \in DOMAIN seq : i < Len(seq) /\ seq[i].score > Last(seq).score}))

RECURSIVE SortByScoreDesc(_)
\* list.sort(key=score, reverse=True): stable, equal scores keep their order
SortByScoreDesc(seq) ==
    IF seq = <<>> THEN <<>>
    ELSE InsertAfter(SortByScoreDesc(Front(seq)), Last(seq),
                     Cardinality({i \in DOMAIN seq : i < Len(seq) /\ seq[i].score >= Last(seq).score}))

\* The loop's result with its list sorted.
SortRanked(loop) == [loop EXCEPT !.ranked = SortByScoreDesc(loop.ranked)]

\* _rank_jobs(jobs, preferences, profile, resume_vector); the jobs are the
\* snapshots of the documents pool[1], pool[2], ... taken from `store`.
_rank_jobs(store, pool, preferences, profile, resume_vector, fails, t) ==
    SortRanked(RankLoop(store, pool, Len(pool), preferences,
                        _extract_profile_skills(profile), resume_vector, fails, t))

-----------------------------------------------------------------------------
(* Candidate pool and serialisation (recommendation_service.py)            *)

_normalize_strings(values) == _normalize_skill_set(values)

\* The MongoDB query of _base_job_query, applied to one job document.
\* {field: {"$in": list}} on an array field: some element is in the list.
_base_job_query(job, preferences) ==
    LET locations == _normalize_strings(preferences.locations)
        remote == Range(job.work_modes) \cap {"remote", "hybrid"} # {}
        Overlaps(have, want) == Range(have) \cap Range(want) # {}
    IN  /\ job.status # "closed"
        /\ IF locations # <<>>
           THEN Overlaps(job.locations, locations) \/ (preferences.remote_ok /\ remote)
           ELSE preferences.remote_ok => remote
        /\ preferences.role_families # <<>>
              => Overlaps(job.categories, preferences.role_families)
        /\ preferences.seniority_levels # <<>>
              => Overlaps(job.levels, preferences.seniority_levels)
        /\ preferences.industries_like # <<>>
              => /\ IsSome(job.metadata)
                 /\ Overlaps(Get(job.metadata).industry, preferences.industries_like)
        /\ preferences.company_sizes # <<>>
              => /\ IsSome(job.metadata)
                 /\ Get(job.metadata).company_size \in Range(preferences.company_sizes)

\* The sequences that enumerate the set S once each.
Perms(S) ==
    {p \in [1..Cardinality(S) -> S] : \A a, b \in 1..Cardinality(S) : p[a] = p[b] => a = b}

\* _load_jobs: the matching jobs by last_seen_active descending, at most
\* MAX_CANDIDATES; the store decides the order of equal timestamps.
_load_jobs(store, preferences) ==
    LET found == {j \in JobIds : IsSome(store[j]) /\ _base_job_query(Get(store[j]), preferences)}
    IN  {SubSeq(p, 1, Min(MAX_CANDIDATES, Len(p))) :
            p \in {q \in Perms(found) :
                     \A a, b \in DOMAIN q :
                        a < b => Get(store[q[a]]).last_seen_active
                                    >= Get(store[q[b]]).last_seen_active}}

\* _fetch_user_states / the state_map of list_user_jobs: the link of (u, j)
UserState(store, u, j) == store[<<u, j>>]

\* The serialised job with the link document `state`, if any.
Serialized(entry, state) ==
    [id |-> entry.job, match_score |-> entry.score, matched_reasons |-> entry.reasons,
     has_state |-> IsSome(state),
     user_state |-> IF IsSome(state) THEN Get(state).state ELSE None,
     resume_score_cache |-> IF IsSome(state) THEN Get(state).resume_score_cache ELSE None]

\* _serialize_job_result: user_state and resume_score_cache are copied from
\* the link document when there is one; an absent or empty cache is left out.
_serialize_job_result(entry, store, u) == Serialized(entry, UserState(store, u, entry.job))

NoStates == [k \in Users \X JobIds |-> None]

-----------------------------------------------------------------------------
(* The monitor task (job_monitor.py)                                       *)

TaskIds == 1..MaxTasks

\* A task is "none" before loop.create_task made it, then runs
\* run_monitor_cycle ("cycle") or sleeps ("sleep"); cancel() leaves it
\* "cancelling" until CancelledError is raised in it, then it is "done".
AliveStates == {"cycle", "sleep", "cancelling"}

\* _monitor_task = None, no task created, no stop_job_monitor call waiting
NoMonitor ==
    [handle |-> None, tasks |-> [t \in TaskIds |-> "none"], created |-> 0,
     cycles |-> 0, stopping |-> FALSE]

\* _monitor_task and not _monitor_task.done()
MonitorRunning(m) == IsSome(m.handle) /\ m.tasks[Get(m.handle)] # "done"

\* loop.create_task(_monitor_loop()); _monitor_task = the new task
CreateMonitorTask(m) ==
    [m EXCEPT !.handle = Some(m.created + 1), !.tasks[m.created + 1] = "cycle",
              !.created = m.created + 1, !.cycles = 1]

\* A start_job_monitor that does not look at the running task.
start_job_monitor_Always(m) == CreateMonitorTask(m)

\* start_job_monitor()
start_job_monitor(m) == IF MonitorRunning(m) THEN m ELSE CreateMonitorTask(m)

\* _monitor_task.cancel(): a task that is not done is asked to cancel
CancelTask(status) == IF status \in {"cycle", "sleep"} THEN "cancelling" ELSE status

\* stop_job_monitor() up to `await _monitor_task`
stop_job_monitor_begin(m) ==
    IF ~IsSome(m.handle) THEN m
    ELSE [m EXCEPT !.tasks[Get(m.handle)] = CancelTask(m.tasks[Get(m.handle)]),
                   !.stopping = TRUE]

\* stop_job_monitor() after the awaited task has ended: _monitor_task = None
stop_job_monitor_end(m) == [m EXCEPT !.handle = None, !.stopping = FALSE]

-----------------------------------------------------------------------------
(* The staleness sweep (job_monitor.py) and mark_job_status                *)

\* A document of jobs_collection; its _id is its place in the catalog. A
\* last_seen_active that is not a datetime is None; status_history stands for
\* the status_history of the job_user_collection documents of the job.
CatalogJob(source, source_id, title, status, source_status, last_seen) ==
    [source |-> source, source_id |-> source_id, title |-> title, status |-> status,
     source_status |-> source_status, last_seen_active |-> last_seen,
     last_status_change |-> None, created_at |-> None, status_history |-> <<>>]

NoCatalog == <<>>

\* No cycle in flight: nothing left to mark, no cycle run yet.
NoSweep == [pc |-> "idle", todo |-> <<>>, runs |-> 0]

\* The ids of the documents with status $ne "closed", in _id order.
RECURSIVE NotClosedIds(_, _)
NotClosedIds(cat, k) ==
    IF k > Len(cat) THEN <<>>
    ELSE (IF cat[k].status # "closed" THEN <<k>> ELSE <<>>) \o NotClosedIds(cat, k + 1)

\* find({"status": {"$ne": "closed"}}).limit(200): the documents as read
MonitorFetch(cat) ==
    LET ids == NotClosedIds(cat, 1)
        kept == SubSeq(ids, 1, Min(Len(ids), MONITOR_FETCH_LIMIT))
    IN  [i \in DOMAIN kept |-> [id |-> kept[i], doc |-> cat[kept[i]]]]

\* now - timedelta(days=STALE_AFTER_DAYS), in hours
StaleThreshold(t) == t - STALE_AFTER_DAYS * HOURS_PER_DAY

\* A sweep that looks at the age of a job before its source status.
MarkFor_StaleFirst(doc, threshold) ==
    IF IsSome(doc.last_seen_active) /\ Get(doc.last_seen_active) < threshold
    THEN Some([status |-> "stale", reason |-> "stale_last_seen"])
    ELSE IF Lower(doc.source_status) = "closed"
    THEN Some([status |-> "closed", reason |-> "source_reported_closed"])
    ELSE None

\* The body of the loop for one fetched document: the _mark_job call it makes
MarkFor(doc, threshold) ==
    IF Lower(doc.source_status) = "closed"
    THEN Some([status |-> "closed", reason |-> "source_reported_closed"])
    ELSE IF IsSome(doc.last_seen_active) /\ Get(doc.last_seen_active) < threshold
    THEN Some([status |-> "stale", reason |-> "stale_last_seen"])
    ELSE None

\* The _mark_job calls of one cycle, in order; they depend on the fetched
\* documents only.
RECURSIVE MarksOf(_, _, _)
MarksOf(fetched, k, threshold) ==
    IF k > Len(fetched) THEN <<>>
    ELSE LET mark == MarkFor(fetched[k].doc, threshold)
         IN  (IF IsSome(mark)
              THEN <<[id |-> fetched[k].id, status |-> Get(mark).status,
                      reason |-> Get(mark).reason]>>
              ELSE <<>>) \o MarksOf(fetched, k + 1, threshold)

\* update_one({"_id": oid}, {"$set": {"status", "last_status_change"}}); an id
\* without a document matches nothing
SetStatus(cat, id, status, t) ==
    IF id \in DOMAIN cat
    THEN [cat EXCEPT ![id].status = status, ![id].last_status_change = Some(t)]
    ELSE cat

\* mark_job_status(job_id, status); InvalidId is a string ObjectId() rejects
InvalidId == 0

mark_job_status(cat, job_id, status, t) ==
    IF job_id = InvalidId THEN cat ELSE SetStatus(cat, job_id, status, t)

\* _record_status_change: $push of {status, reason, timestamp}
PushStatusHistory(cat, id, status, reason, t) ==
    IF id \in DOMAIN cat
    THEN [cat EXCEPT ![id].status_history =
              Append(@, [status |-> status, reason |-> reason, timestamp |-> t])]
    ELSE cat

-----------------------------------------------------------------------------
(* upsert_job (recommendation_service.py)                                  *)

UpsertCalls == {"w1", "w2"}

\* A call that has not started, or has returned.
IdleUpsert == [pc |-> "idle", payload |-> None, existing |-> None]

NoUpserts == [c \in UpsertCalls |-> IdleUpsert]

\* job_payload as run_scraper hands it over; status None is a payload without
\* the key
JobPayload(source, source_id, title, status) ==
    [source |-> source, source_id |-> source_id, title |-> title, status |-> status]

\* find_one({"source": source, "source_id": source_id}, {"_id": 1})
FindBySource(cat, source, source_id) ==
    LET ids == {k \in DOMAIN cat : cat[k].source = source /\ cat[k].source_id = source_id}
    IN  IF ids = {} THEN None ELSE Some(CHOOSE k \in ids : \A o \in ids : k <= o)

\* job_payload after the two setdefault calls: what $set writes
PayloadFields(payload, t) ==
    [source |-> payload.source, source_id |-> payload.source_id, title |-> payload.title,
     status |-> IF IsSome(payload.status) THEN Get(payload.status) ELSE "active",
     last_seen_active |-> Some(t)]

\* update_one({"_id": existing["_id"]}, {"$set": job_payload, ...}): the
\* fields of the payload replace those of the document, the others stay
UpdateJob(cat, id, payload, t) ==
    LET f == PayloadFields(payload, t)
    IN  [cat EXCEPT ![id].source = f.source, ![id].source_id = f.source_id,
                    ![id].title = f.title, ![id].status = f.status,
                    ![id].last_seen_active = f.last_seen_active]

\* insert_one({**job_payload, "created_at": now})
InsertJob(cat, payload, t) ==
    LET f == PayloadFields(payload, t)
    IN  Append(cat, [CatalogJob(f.source, f.source_id, f.title, f.status, "", f.last_seen_active)
                        EXCEPT !.created_at = Some(t)])

\* An upsert_job that inserts whatever find_one returned.
UpsertWrite_AlwaysInsert(cat, existing, payload, t) ==
    [catalog |-> InsertJob(cat, payload, t), job_id |-> Len(cat) + 1]

\* upsert_job after its find_one: the catalog it leaves and the id it returns
UpsertWrite(cat, existing, payload, t) ==
    IF IsSome(existing)
    THEN [catalog |-> UpdateJob(cat, Get(existing), payload, t), job_id |-> Get(existing)]
    ELSE [catalog |-> InsertJob(cat, payload, t), job_id |-> Len(cat) + 1]

-----------------------------------------------------------------------------
(* Operations                                                              *)

Tick ==
    /\ \E t \in Instants : t > now /\ now' = t /\ last' = [NoCall EXCEPT !.op = "tick", !.at = t]
    /\ UNCHANGED <<jobs, profiles, links, rankIn, scoreIn, scoreOut, inflight, cosIn, monitor, catalog, sweep, upserts>>

GetOrCreateResumeFit ==
    /\ \E u \in Users, j \in JobIds, failResume \in BOOLEAN, failJob \in BOOLEAN :
          \E done \in {get_or_create_resume_fit(profiles, jobs, links, u, j,
                                                failResume, failJob, now)} :
             /\ last' = done.call
             /\ profiles' = done.profiles
             /\ jobs' = done.jobs
             /\ links' = done.links
    /\ UNCHANGED <<now, rankIn, scoreIn, scoreOut, inflight, cosIn, monitor, catalog, sweep, upserts>>

\* A payload handed to cache_resume_score by a caller other than the fit cache.
DirectPayload ==
    [score |-> 42, summary |-> <<[kind |-> "no_overlap", pct |-> 0, items |-> <<>>]>>,
     matched |-> <<>>, gaps |-> <<>>, last_calculated |-> None, updated_at |-> None]

CacheResumeScore ==
    /\ \E u \in Users, j \in JobIds :
          /\ links' = cache_resume_score(links, u, j, DirectPayload, now)
          /\ last' = [NoCall EXCEPT !.op = "cache_resume_score", !.user = u, !.job = j,
                                    !.at = now, !.outcome = "ok", !.cache_writes = 1]
    /\ UNCHANGED <<now, jobs, profiles, rankIn, scoreIn, scoreOut, inflight, cosIn, monitor, catalog, sweep, upserts>>

\* save_job_for_user: $set state, upsert
save_job_for_user(store, u, j, state) ==
    LET doc == IF IsSome(store[<<u, j>>]) THEN Get(store[<<u, j>>]) ELSE EmptyLink
    IN  [store EXCEPT ![<<u, j>>] = Some([doc EXCEPT !.state = Some(state)])]

SaveJobForUser ==
    /\ \E u \in Users, j \in JobIds, state \in {"saved"} :
          /\ links' = save_job_for_user(links, u, j, state)
          /\ last' = [NoCall EXCEPT !.op = "save_job_for_user", !.user = u, !.job = j,
                                    !.at = now, !.outcome = "ok"]
    /\ UNCHANGED <<now, jobs, profiles, rankIn, scoreIn, scoreOut, inflight, cosIn, monitor, catalog, sweep, upserts>>

\* delete_saved_job: delete_one on the link document
delete_saved_job(store, u, j) == [store EXCEPT ![<<u, j>>] = None]

DeleteSavedJob ==
    /\ \E u \in Users, j \in JobIds :
          /\ links' = delete_saved_job(links, u, j)
          /\ last' = [NoCall EXCEPT !.op = "delete_saved_job", !.user = u, !.job = j,
                                    !.at = now, !.outcome = "ok"]
    /\ UNCHANGED <<now, jobs, profiles, rankIn, scoreIn, scoreOut, inflight, cosIn, monitor, catalog, sweep, upserts>>

\* list_user_jobs(u): the possible results (the store decides the order)
list_user_jobs(jstore, lstore, u) ==
    LET linked == {j \in JobIds : IsSome(lstore[<<u, j>>])}
        found == {j \in linked : IsSome(jstore[j])}
    IN  {[i \in DOMAIN p |->
            _serialize_job_result([job |-> p[i], score |-> 0, reasons |-> <<>>], lstore, u)] :
         p \in Perms(found)}

ListUserJobs ==
    /\ \E u \in Users : \E items \in list_user_jobs(jobs, links, u) :
          last' = [NoCall EXCEPT !.op = "list_user_jobs", !.user = u, !.at = now,
                                 !.outcome = "ok", !.items = items]
    /\ UNCHANGED <<now, jobs, profiles, links, rankIn, scoreIn, scoreOut, inflight, cosIn, monitor, catalog, sweep, upserts>>

\* The record of a recommend_for_user call.
RecommendCall(u, t) ==
    [NoCall EXCEPT !.op = "recommend_for_user", !.user = u, !.at = t, !.profile_reads = 1]

\* ranked[:limit], serialised
TopItems(ranked, limit, lstore, u) ==
    [i \in 1..Min(limit, Len(ranked)) |-> _serialize_job_result(ranked[i], lstore, u)]

\* recommend_for_user after _rank_jobs ended with `rank`
RecommendRanked(lstore, u, limit, pool, fails, t, rv, rank) ==
    [call |-> [RecommendCall(u, t) EXCEPT
                   !.outcome = IF rank.raised THEN "UpstreamError" ELSE "ok",
                   !.embed_calls = rv.calls + rank.calls,
                   !.pool = pool, !.fails = fails,
                   !.items = IF rank.raised THEN <<>>
                             ELSE TopItems(rank.ranked, limit, lstore, u)],
     profiles |-> rv.store, jobs |-> rank.store]

\* recommend_for_user after the resume embedding was asked for, with result rv
RecommendEmbedded(pstore, jstore, lstore, u, limit, pool, fails, t, rv) ==
    IF rv.raised
    THEN [call |-> [RecommendCall(u, t) EXCEPT !.outcome = "UpstreamError",
                                               !.embed_calls = rv.calls],
          profiles |-> pstore, jobs |-> jstore]
    ELSE IF pool = <<>>
    THEN [call |-> [RecommendCall(u, t) EXCEPT !.outcome = "ok", !.embed_calls = rv.calls],
          profiles |-> rv.store, jobs |-> jstore]
    ELSE RecommendRanked(lstore, u, limit, pool, fails, t, rv,
                         _rank_jobs(jstore, pool, Get(Get(pstore[u]).preferences),
                                    Get(pstore[u]), rv.vector, fails, t))

\* recommend_for_user(u, limit) with the candidate pool in the order `pool`:
\* the record of the call and the stores after it.
recommend_for_user(pstore, jstore, lstore, u, limit, pool, failResume, fails, t) ==
    IF ~IsSome(pstore[u]) \/ ~IsSome(Get(pstore[u]).preferences)
    THEN [call |-> [RecommendCall(u, t) EXCEPT !.outcome = "ok"],
          profiles |-> pstore, jobs |-> jstore]
    ELSE RecommendEmbedded(pstore, jstore, lstore, u, limit, pool, fails, t,
                           _ensure_resume_embedding(pstore, u, failResume, t))

\* The candidate pools _load_jobs can hand to recommend_for_user(u).
CandidatePools(pstore, jstore, u) ==
    IF IsSome(pstore[u]) /\ IsSome(Get(pstore[u]).preferences)
    THEN _load_jobs(jstore, Get(Get(pstore[u]).preferences))
    ELSE {<<>>}

RecommendForUser ==
    /\ \E u \in Users, limit \in {1, DEFAULT_LIMIT}, failResume \in BOOLEAN,
          fails \in SUBSET JobIds :
          \E pool \in CandidatePools(profiles, jobs, u) :
             \E done \in {recommend_for_user(profiles, jobs, links, u, limit, pool,
                                             failResume, fails, now)} :
                /\ last' = done.call
                /\ profiles' = done.profiles
                /\ jobs' = done.jobs
    /\ UNCHANGED <<now, links, rankIn, scoreIn, scoreOut, inflight, cosIn, monitor, catalog, sweep, upserts>>

-----------------------------------------------------------------------------
(* The engine over its stores: fit cache, saved jobs, recommendations      *)

MainPreferences ==
    [NoPreferences EXCEPT !.role_families = <<"backend", "data">>,
                          !.industries_avoid = <<"adtech">>]

MainProfile == ProfileDoc("resume_up", <<"python", "SQL", " ">>, Some(MainPreferences))

MainJob1 ==
    JobDoc("job_diag", <<"Python", "sql", " docker ">>, <<"backend">>, <<"senior">>,
           <<"fintech">>, "startup")

NoRankIn ==
    [pool |-> <<>>, preferences |-> NoPreferences, profile |-> ProfileDoc("", <<>>, None),
     resume_vector |-> <<>>]

NoScoreIn == [resume_data |-> <<>>, job_data |-> <<>>, resume_text |-> ""]

Init ==
    /\ now = 0
    /\ upserts = NoUpserts
    /\ sweep = NoSweep
    /\ catalog = NoCatalog
    /\ monitor = NoMonitor
    /\ cosIn = NoCosIn
    /\ jobs = [j \in JobIds |-> IF j = "j1" THEN Some(MainJob1) ELSE None]
    /\ profiles \in [Users -> {None, Some(MainProfile)}]
    /\ links = NoStates
    /\ last = NoCall
    /\ rankIn = NoRankIn
    /\ scoreIn = NoScoreIn
    /\ scoreOut = None
    /\ inflight = NoInflight

\* Job j1 has a record, job j2 has none; the profile of u1 may be missing.
Next ==
    \/ Tick
    \/ GetOrCreateResumeFit
    \/ CacheResumeScore
    \/ ListUserJobs
    \/ RecommendForUser

Spec == Init /\ [][Next]_vars

\* The same operations together with the two that edit a user's saved list.
EngineNext ==
    \/ Tick
    \/ GetOrCreateResumeFit
    \/ CacheResumeScore
    \/ ListUserJobs
    \/ RecommendForUser
    \/ SaveJobForUser
    \/ DeleteSavedJob

EngineSpec == Init /\ [][EngineNext]_vars

\* The fit computation over profiles and jobs of every shape: texts with and
\* without an embedding, skill lists with blanks, repeats and mixed case.
FitResumeTexts == {"", "resume_up", "job_down"}
FitJobTexts == {"", "job_up", "job_diag", "job_near_a", "job_down", "job_flat"}
FitProfileSkills ==
    {<<>>, <<"python", "SQL", " ">>, <<"Python", "python", "docker">>, <<"sql">>}
FitJobSkills ==
    {<<>>, <<"Python", "sql", " docker ">>, <<"sql", "SQL", " sql">>, <<" ", "">>}

FitInit ==
    /\ now = 0
    /\ upserts = NoUpserts
    /\ sweep = NoSweep
    /\ catalog = NoCatalog
    /\ monitor = NoMonitor
    /\ cosIn = NoCosIn
    /\ \E text \in FitJobTexts, skills \in FitJobSkills :
          jobs = [j \in JobIds |->
                     IF j = "j1"
                     THEN Some(JobDoc(text, skills, <<"backend">>, <<"senior">>,
                                      <<"fintech">>, "startup"))
                     ELSE None]
    /\ \E text \in FitResumeTexts, skills \in FitProfileSkills :
          profiles = [u \in Users |-> Some(ProfileDoc(text, skills, None))]
    /\ links = NoStates
    /\ last = NoCall
    /\ rankIn = NoRankIn
    /\ scoreIn = NoScoreIn
    /\ scoreOut = None
    /\ inflight = NoInflight

FitNext == GetOrCreateResumeFit

FitSpec == FitInit /\ [][FitNext]_vars

-----------------------------------------------------------------------------
(* Two get_or_create_resume_fit calls for one pair that run concurrently:  *)
(* the code between two awaits of the coroutine is one step                *)

\* The call ends with an outcome and, when it returns, a result.
Ended(call, outcome, result) ==
    [call EXCEPT !.pc = "done", !.outcome = outcome, !.result = result]

\* compute_resume_fit from the job vector on: the payload, stamped with t.
Computed(call, job_vector, t) ==
    [call EXCEPT !.pc = "cache", !.job_vector = job_vector,
                 !.payload = Some(FitPayload(Get(call.profile), Get(call.job_doc),
                                             call.resume_vector, job_vector, t))]

\* cached = await get_cached_resume_score(...), and the return of a fresh entry
ConcLookup(c) ==
    /\ inflight[c].pc = "start"
    /\ \E cached \in {get_cached_resume_score(links, inflight[c].user, inflight[c].job)} :
          inflight' = [inflight EXCEPT ![c] =
              IF IsSome(cached) /\ IsFresh(Get(cached), now)
              THEN Ended([inflight[c] EXCEPT !.cached = cached], "ok", cached)
              ELSE [inflight[c] EXCEPT !.pc = "job", !.cached = cached]]
    /\ UNCHANGED <<now, jobs, profiles, links, last, rankIn, scoreIn, scoreOut, cosIn, monitor, catalog, sweep, upserts>>

\* job = await get_job_detail(job_id)
ConcLoadJob(c) ==
    /\ inflight[c].pc = "job"
    /\ \E job \in {get_job_detail(jobs, inflight[c].job)} :
          inflight' = [inflight EXCEPT ![c] =
              IF ~IsSome(job)
              THEN Ended(inflight[c], "NotFound", None)
              ELSE [inflight[c] EXCEPT !.pc = "profile", !.job_doc = job]]
    /\ UNCHANGED <<now, jobs, profiles, links, last, rankIn, scoreIn, scoreOut, cosIn, monitor, catalog, sweep, upserts>>

\* profile = await _load_profile(user_id)
ConcLoadProfile(c) ==
    /\ inflight[c].pc = "profile"
    /\ \E profile \in {_load_profile(profiles, inflight[c].user)} :
          inflight' = [inflight EXCEPT ![c] =
              IF ~IsSome(profile)
              THEN Ended(inflight[c], "ProfileMissing", None)
              ELSE [inflight[c] EXCEPT !.pc = "resume", !.profile = profile]]
    /\ UNCHANGED <<now, jobs, profiles, links, last, rankIn, scoreIn, scoreOut, cosIn, monitor, catalog, sweep, upserts>>

\* The resume embedding of the loaded profile: the cached vector, or
\* vector = await _embed_text(resume_text)
ConcResumeEmbedding(c) ==
    /\ inflight[c].pc = "resume"
    /\ \E profile \in {Get(inflight[c].profile)} :
          inflight' = [inflight EXCEPT ![c] =
              IF profile.resume_embedding # <<>>
              THEN [inflight[c] EXCEPT !.pc = "job_embedding",
                                       !.resume_vector = profile.resume_embedding]
              ELSE [inflight[c] EXCEPT
                       !.pc = IF _embed_text(profile.text) # <<>>
                              THEN "resume_store" ELSE "job_embedding",
                       !.resume_vector = _embed_text(profile.text)]]
    /\ UNCHANGED <<now, jobs, profiles, links, last, rankIn, scoreIn, scoreOut, cosIn, monitor, catalog, sweep, upserts>>

\* await profiles_collection.update_one(... resume_embedding ...)
ConcStoreResumeEmbedding(c) ==
    /\ inflight[c].pc = "resume_store"
    /\ profiles' = StoreResumeEmbedding(profiles, inflight[c].user,
                                        inflight[c].resume_vector, now)
    /\ inflight' = [inflight EXCEPT ![c].pc = "job_embedding"]
    /\ UNCHANGED <<now, jobs, links, last, rankIn, scoreIn, scoreOut, cosIn, monitor, catalog, sweep, upserts>>

\* The job embedding of the loaded job: the cached vector, or
\* vector = await _embed_text(text); without a vector to store, the rest of
\* compute_resume_fit follows at once.
ConcJobEmbedding(c) ==
    /\ inflight[c].pc = "job_embedding"
    /\ \E job \in {Get(inflight[c].job_doc)} :
          inflight' = [inflight EXCEPT ![c] =
              IF job.embedding # <<>>
              THEN Computed(inflight[c], job.embedding, now)
              ELSE IF _embed_text(job.text) = <<>>
              THEN Computed(inflight[c], <<>>, now)
              ELSE [inflight[c] EXCEPT !.pc = "job_store",
                                       !.job_vector = _embed_text(job.text)]]
    /\ UNCHANGED <<now, jobs, profiles, links, last, rankIn, scoreIn, scoreOut, cosIn, monitor, catalog, sweep, upserts>>

\* await jobs_collection.update_one(... embedding ...), then the rest of
\* compute_resume_fit
ConcStoreJobEmbedding(c) ==
    /\ inflight[c].pc = "job_store"
    /\ jobs' = StoreJobEmbedding(jobs, inflight[c].job, inflight[c].job_vector, now)
    /\ inflight' = [inflight EXCEPT ![c] =
                       Computed(inflight[c], inflight[c].job_vector, now)]
    /\ UNCHANGED <<now, profiles, links, last, rankIn, scoreIn, scoreOut, cosIn, monitor, catalog, sweep, upserts>>

\* await cache_resume_score(user_id, job_id, payload); return payload
ConcCache(c) ==
    /\ inflight[c].pc = "cache"
    /\ links' = cache_resume_score(links, inflight[c].user, inflight[c].job,
                                   Get(inflight[c].payload), now)
    /\ inflight' = [inflight EXCEPT ![c] =
                       Ended([inflight[c] EXCEPT !.written_at = Some(now)],
                             "ok", inflight[c].payload)]
    /\ UNCHANGED <<now, jobs, profiles, last, rankIn, scoreIn, scoreOut, cosIn, monitor, catalog, sweep, upserts>>

\* Both calls are for (u1, j1); the job and the profile are on record, without
\* embeddings, and nothing is cached.
ConcInit ==
    /\ now = 0
    /\ upserts = NoUpserts
    /\ sweep = NoSweep
    /\ catalog = NoCatalog
    /\ monitor = NoMonitor
    /\ cosIn = NoCosIn
    /\ jobs = [j \in JobIds |-> IF j = "j1" THEN Some(MainJob1) ELSE None]
    /\ profiles = [u \in Users |-> Some(MainProfile)]
    /\ links = NoStates
    /\ last = NoCall
    /\ rankIn = NoRankIn
    /\ scoreIn = NoScoreIn
    /\ scoreOut = None
    /\ inflight = [c \in Calls |-> [IdleCall EXCEPT !.pc = "start", !.user = "u1",
                                                    !.job = "j1"]]

ConcNext ==
    \/ Tick
    \/ \E c \in Calls : ConcLookup(c)
    \/ \E c \in Calls : ConcLoadJob(c)
    \/ \E c \in Calls : ConcLoadProfile(c)
    \/ \E c \in Calls : ConcResumeEmbedding(c)
    \/ \E c \in Calls : ConcStoreResumeEmbedding(c)
    \/ \E c \in Calls : ConcJobEmbedding(c)
    \/ \E c \in Calls : ConcStoreJobEmbedding(c)
    \/ \E c \in Calls : ConcCache(c)

ConcSpec == ConcInit /\ [][ConcNext]_vars

-----------------------------------------------------------------------------
(* The job ranker on its own: _rank_jobs over drawn inputs                 *)

FullPreferences ==
    [NoPreferences EXCEPT !.role_families = <<"backend">>,
                          !.seniority_levels = <<"senior">>,
                          !.company_sizes = <<"startup">>,
                          !.industries_like = <<"fintech">>,
                          !.industries_avoid = <<"adtech">>]

RankJobDocs ==
    LET fresh == {JobDoc("job_near_a", <<"Python">>, <<"backend">>, <<"senior">>,
                         <<"fintech">>, "startup"),
                  JobDoc("job_near_b", <<"Python">>, <<"backend">>, <<"senior">>,
                         <<"fintech">>, "startup"),
                  JobDoc("job_up", <<"Python", "SQL">>, <<"Backend">>, <<"Senior">>,
                         <<"Fintech">>, "Startup"),
                  JobDoc("job_diag", <<"sql">>, <<"data">>, <<"junior">>,
                         <<"fintech", "adtech">>, "enterprise"),
                  JobDoc("job_down", <<>>, <<>>, <<>>, <<"adtech">>, ""),
                  JobDoc("job_flat", <<"docker">>, <<"backend">>, <<>>, <<>>, "startup"),
                  JobDoc("", <<>>, <<>>, <<>>, <<"adtech">>, "")}
    IN  fresh \cup {[d EXCEPT !.embedding = EmbeddingOf(d.text),
                              !.embedding_updated_at = Some(0)] : d \in fresh}

Pools == UNION {Perms(S) : S \in SUBSET JobIds}

RankInit ==
    /\ now = 0
    /\ upserts = NoUpserts
    /\ sweep = NoSweep
    /\ catalog = NoCatalog
    /\ monitor = NoMonitor
    /\ cosIn = NoCosIn
    /\ jobs \in [JobIds -> {Some(d) : d \in RankJobDocs}]
    /\ profiles = [u \in Users |-> None]
    /\ links = NoStates
    /\ last = NoCall
    /\ rankIn \in [pool : Pools,
                   preferences : {NoPreferences, FullPreferences},
                   profile : {ProfileDoc("", <<>>, None),
                              ProfileDoc("resume_up", <<"python", "SQL">>, None)},
                   resume_vector : {<<>>, <<0, 1>>}]
    /\ scoreIn = NoScoreIn
    /\ scoreOut = None
    /\ inflight = NoInflight

\* One _rank_jobs call; the provider raises for the jobs in `fails`.
RankJobs ==
    /\ \E fails \in SUBSET JobIds :
          \E rank \in {_rank_jobs(jobs, rankIn.pool, rankIn.preferences, rankIn.profile,
                                  rankIn.resume_vector, fails, now)} :
              /\ jobs' = rank.store
              /\ last' = [NoCall EXCEPT !.op = "_rank_jobs", !.at = now,
                                        !.outcome = IF rank.raised THEN "UpstreamError" ELSE "ok",
                                        !.embed_calls = rank.calls, !.fails = fails,
                                        !.pool = rankIn.pool, !.items = rank.ranked]
    /\ UNCHANGED <<now, profiles, links, rankIn, scoreIn, scoreOut, inflight, cosIn, monitor, catalog, sweep, upserts>>

RankNext == RankJobs

RankSpec == RankInit /\ [][RankNext]_vars

-----------------------------------------------------------------------------
(* The preference evaluator on its own: _evaluate_preferences over drawn   *)
(* jobs, preferences and profile skills                                    *)

\* Every combination of the five preference lists being set or not.
PrefPreferences ==
    [role_families : {<<>>, <<"Backend", "data">>},
     seniority_levels : {<<>>, <<"senior">>},
     company_sizes : {<<>>, <<"Startup">>},
     industries_like : {<<>>, <<"fintech">>},
     industries_avoid : {<<>>, <<"adtech">>},
     locations : {<<>>},
     remote_ok : {FALSE}]

PrefJobDocs ==
    {JobDoc("", <<"Python", "sql">>, <<"backend">>, <<"Senior">>, <<"Fintech">>, "startup"),
     JobDoc("", <<"docker">>, <<"data">>, <<"junior">>, <<"fintech", "adtech">>, "enterprise"),
     JobDoc("", <<>>, <<>>, <<>>, <<"adtech">>, ""),
     [JobDoc("", <<"SQL">>, <<"Backend">>, <<"senior">>, <<>>, "") EXCEPT !.metadata = None]}

PrefProfileSkills == {<<>>, <<"python", "SQL">>, <<"docker", "Python">>}

PrefInit ==
    /\ now = 0
    /\ upserts = NoUpserts
    /\ sweep = NoSweep
    /\ catalog = NoCatalog
    /\ monitor = NoMonitor
    /\ cosIn = NoCosIn
    /\ jobs \in [JobIds -> {Some(d) : d \in PrefJobDocs}]
    /\ profiles = [u \in Users |-> None]
    /\ links = NoStates
    /\ last = NoCall
    /\ rankIn \in [pool : {<<>>},
                   preferences : PrefPreferences,
                   profile : {ProfileDoc("", skills, None) : skills \in PrefProfileSkills},
                   resume_vector : {<<>>}]
    /\ scoreIn = NoScoreIn
    /\ scoreOut = None
    /\ inflight = NoInflight

\* One _evaluate_preferences call on job j.
EvaluatePreferences ==
    /\ \E j \in JobIds :
          last' = [NoCall EXCEPT
                      !.op = "_evaluate_preferences", !.job = j, !.at = now,
                      !.outcome = "ok",
                      !.result = Some(_evaluate_preferences(
                                          Get(jobs[j]), rankIn.preferences,
                                          _extract_profile_skills(rankIn.profile)))]
    /\ UNCHANGED <<now, jobs, profiles, links, rankIn, scoreIn, scoreOut, inflight, cosIn, monitor, catalog, sweep, upserts>>

PrefNext == EvaluatePreferences

PrefSpec == PrefInit /\ [][PrefNext]_vars

-----------------------------------------------------------------------------
(* start_job_monitor and stop_job_monitor called one after the other, and  *)
(* the monitor task between the calls                                      *)

MonitorCall(op, outcome) == [NoCall EXCEPT !.op = op, !.outcome = outcome]

\* start_job_monitor(); the model creates at most MaxTasks tasks
StartJobMonitor ==
    /\ ~monitor.stopping
    /\ MonitorRunning(monitor) \/ monitor.created < MaxTasks
    /\ monitor' = start_job_monitor(monitor)
    /\ last' = MonitorCall("start_job_monitor",
                           IF MonitorRunning(monitor) THEN "skipped" ELSE "started")
    /\ UNCHANGED <<now, jobs, profiles, links, rankIn, scoreIn, scoreOut, inflight, cosIn, catalog, sweep, upserts>>

\* stop_job_monitor() up to its await; without a task it returns at once
StopJobMonitorBegin ==
    /\ ~monitor.stopping
    /\ monitor' = stop_job_monitor_begin(monitor)
    /\ last' = MonitorCall("stop_job_monitor",
                           IF IsSome(monitor.handle) THEN "awaiting" ELSE "no_task")
    /\ UNCHANGED <<now, jobs, profiles, links, rankIn, scoreIn, scoreOut, inflight, cosIn, catalog, sweep, upserts>>

\* the awaited task has ended: stop_job_monitor resumes and returns
StopJobMonitorEnd ==
    /\ monitor.stopping
    /\ monitor.tasks[Get(monitor.handle)] = "done"
    /\ monitor' = stop_job_monitor_end(monitor)
    /\ last' = MonitorCall("stop_job_monitor", "stopped")
    /\ UNCHANGED <<now, jobs, profiles, links, rankIn, scoreIn, scoreOut, inflight, cosIn, catalog, sweep, upserts>>

\* _monitor_loop: run_monitor_cycle returns or raises an Exception, which is
\* logged; the task goes to sleep
MonitorCycleEnds ==
    /\ \E t \in TaskIds, raised \in BOOLEAN :
          /\ monitor.tasks[t] = "cycle"
          /\ monitor' = [monitor EXCEPT !.tasks[t] = "sleep"]
          /\ last' = MonitorCall("_monitor_loop", IF raised THEN "cycle_failed" ELSE "cycle_done")
    /\ UNCHANGED <<now, jobs, profiles, links, rankIn, scoreIn, scoreOut, inflight, cosIn, catalog, sweep, upserts>>

\* _monitor_loop: asyncio.sleep returns and the next cycle starts
MonitorWakes ==
    /\ \E t \in TaskIds :
          /\ monitor.tasks[t] = "sleep"
          /\ monitor.cycles < MaxCycles
          /\ monitor' = [monitor EXCEPT !.tasks[t] = "cycle", !.cycles = monitor.cycles + 1]
          /\ last' = MonitorCall("_monitor_loop", "cycle_started")
    /\ UNCHANGED <<now, jobs, profiles, links, rankIn, scoreIn, scoreOut, inflight, cosIn, catalog, sweep, upserts>>

\* CancelledError is raised in the task at its await; no except clause of
\* the loop catches it, and the task ends
MonitorTaskCancelled ==
    /\ \E t \in TaskIds :
          /\ monitor.tasks[t] = "cancelling"
          /\ monitor' = [monitor EXCEPT !.tasks[t] = "done"]
          /\ last' = MonitorCall("_monitor_loop", "cancelled")
    /\ UNCHANGED <<now, jobs, profiles, links, rankIn, scoreIn, scoreOut, inflight, cosIn, catalog, sweep, upserts>>

MonitorInit ==
    /\ now = 0
    /\ upserts = NoUpserts
    /\ sweep = NoSweep
    /\ catalog = NoCatalog
    /\ monitor = NoMonitor
    /\ cosIn = NoCosIn
    /\ jobs = [j \in JobIds |-> None]
    /\ profiles = [u \in Users |-> None]
    /\ links = NoStates
    /\ last = NoCall
    /\ rankIn = NoRankIn
    /\ scoreIn = NoScoreIn
    /\ scoreOut = None
    /\ inflight = NoInflight

MonitorNext ==
    \/ StartJobMonitor
    \/ StopJobMonitorBegin
    \/ StopJobMonitorEnd
    \/ MonitorCycleEnds
    \/ MonitorWakes
    \/ MonitorTaskCancelled

MonitorSpec == MonitorInit /\ [][MonitorNext]_vars

-----------------------------------------------------------------------------
(* run_monitor_cycle, one await at a time, with mark_job_status calls and  *)
(* the clock between its steps                                             *)

SweepCall(op, outcome, id, status) ==
    [NoCall EXCEPT !.op = op, !.outcome = outcome,
                   !.result = Some([id |-> id, status |-> status])]

\* run_monitor_cycle up to the end of its find: the threshold, the fetched
\* documents and so the marks it is going to make
RunMonitorCycleFetch ==
    /\ sweep.pc = "idle"
    /\ sweep.runs < MaxSweeps
    /\ \E todo \in {MarksOf(MonitorFetch(catalog), 1, StaleThreshold(now))} :
          /\ sweep' = [pc |-> IF todo = <<>> THEN "idle" ELSE "mark",
                       todo |-> todo, runs |-> sweep.runs + 1]
          /\ last' = SweepCall("run_monitor_cycle",
                               IF todo = <<>> THEN "completed" ELSE "fetched",
                               InvalidId, "")
    /\ UNCHANGED <<now, jobs, profiles, links, rankIn, scoreIn, scoreOut, inflight, cosIn, monitor, catalog, upserts>>

\* _mark_job: the update_one of the job's status
MarkJobUpdate ==
    /\ sweep.pc = "mark"
    /\ catalog' = SetStatus(catalog, Head(sweep.todo).id, Head(sweep.todo).status, now)
    /\ sweep' = [sweep EXCEPT !.pc = "record"]
    /\ last' = SweepCall("_mark_job", "updated", Head(sweep.todo).id, Head(sweep.todo).status)
    /\ UNCHANGED <<now, jobs, profiles, links, rankIn, scoreIn, scoreOut, inflight, cosIn, monitor, upserts>>

\* _mark_job: _record_status_change, then the loop goes on to its next mark
MarkJobRecord ==
    /\ sweep.pc = "record"
    /\ catalog' = PushStatusHistory(catalog, Head(sweep.todo).id, Head(sweep.todo).status,
                                    Head(sweep.todo).reason, now)
    /\ sweep' = [sweep EXCEPT !.pc = IF Tail(sweep.todo) = <<>> THEN "idle" ELSE "mark",
                              !.todo = Tail(sweep.todo)]
    /\ last' = SweepCall("_record_status_change",
                         IF Tail(sweep.todo) = <<>> THEN "completed" ELSE "recorded",
                         Head(sweep.todo).id, Head(sweep.todo).status)
    /\ UNCHANGED <<now, jobs, profiles, links, rankIn, scoreIn, scoreOut, inflight, cosIn, monitor, upserts>>

\* mark_job_status(job_id, status) from another coroutine; Len(catalog) + 1
\* is a well-formed id without a document
MarkJobStatus ==
    /\ \E job_id \in 0..(Len(catalog) + 1), status \in {"active", "closed"} :
          /\ catalog' = mark_job_status(catalog, job_id, status, now)
          /\ last' = SweepCall("mark_job_status",
                               IF job_id = InvalidId THEN "invalid_id" ELSE "ok",
                               job_id, status)
    /\ UNCHANGED <<now, jobs, profiles, links, rankIn, scoreIn, scoreOut, inflight, cosIn, monitor, sweep, upserts>>

\* The clock, up to the hour at which every dated document is stale.
SweepTick ==
    /\ Tick
    /\ now' <= SweepHours

\* The documents the sweep starts from. The first is open and was last seen
\* a little more than STALE_AFTER_DAYS before the start; its source is silent
\* or reports "Closed". The second is open or closed, its source silent or
\* reporting "Closed", last seen exactly STALE_AFTER_DAYS before the start,
\* a little earlier, or without a datetime.
SweepFirstJobs ==
    {CatalogJob("board", "a1", "engineer", "active", source_status,
                Some(0 - STALE_AFTER_DAYS * HOURS_PER_DAY - 1)) :
        source_status \in {"", "Closed"}}

SweepLastSeen ==
    {None, Some(0 - STALE_AFTER_DAYS * HOURS_PER_DAY - 1),
     Some(0 - STALE_AFTER_DAYS * HOURS_PER_DAY)}

SweepSecondJobs ==
    {CatalogJob("board", "b2", "analyst", status, source_status, last_seen) :
        status \in {"active", "closed"}, source_status \in {"", "Closed"},
        last_seen \in SweepLastSeen}

SweepInit ==
    /\ now = 0
    /\ upserts = NoUpserts
    /\ cosIn = NoCosIn
    /\ monitor = NoMonitor
    /\ sweep = NoSweep
    /\ catalog \in {<<a, b>> : a \in SweepFirstJobs, b \in SweepSecondJobs}
    /\ jobs = [j \in JobIds |-> None]
    /\ profiles = [u \in Users |-> None]
    /\ links = NoStates
    /\ last = NoCall
    /\ rankIn = NoRankIn
    /\ scoreIn = NoScoreIn
    /\ scoreOut = None
    /\ inflight = NoInflight

SweepNext ==
    \/ RunMonitorCycleFetch
    \/ MarkJobUpdate
    \/ MarkJobRecord
    \/ MarkJobStatus
    \/ SweepTick

SweepSpec == SweepInit /\ [][SweepNext]_vars

-----------------------------------------------------------------------------
(* upsert_job calls, each one await at a time                              *)

\* Two payloads for the pair (board, a1), one of them with a status, and one
\* for the pair (board, b2).
UpsertPayloads ==
    {JobPayload("board", "a1", "engineer", None),
     JobPayload("board", "a1", "analyst", Some("closed")),
     JobPayload("board", "b2", "engineer", None)}

\* upsert_job up to the end of its find_one
UpsertFind(c) ==
    /\ upserts[c].pc = "idle"
    /\ \E payload \in UpsertPayloads :
          /\ upserts' = [upserts EXCEPT ![c] =
                 [pc |-> "found", payload |-> Some(payload),
                  existing |-> FindBySource(catalog, payload.source, payload.source_id)]]
          /\ last' = [NoCall EXCEPT !.op = "upsert_job", !.user = c, !.outcome = "found"]
    /\ UNCHANGED <<now, jobs, profiles, links, rankIn, scoreIn, scoreOut, inflight, cosIn, monitor, catalog, sweep>>

\* upsert_job from its find_one to its return: update_one or insert_one; the
\* model holds at most MaxRecords documents
UpsertStore(c) ==
    /\ upserts[c].pc = "found"
    /\ IsSome(upserts[c].existing) \/ Len(catalog) < MaxRecords
    /\ \E done \in {UpsertWrite(catalog, upserts[c].existing, Get(upserts[c].payload), now)} :
          /\ catalog' = done.catalog
          /\ last' = [NoCall EXCEPT !.op = "upsert_job", !.user = c,
                         !.outcome = IF IsSome(upserts[c].existing) THEN "updated" ELSE "inserted",
                         !.result = Some(done.job_id)]
    /\ upserts' = [upserts EXCEPT ![c] = IdleUpsert]
    /\ UNCHANGED <<now, jobs, profiles, links, rankIn, scoreIn, scoreOut, inflight, cosIn, monitor, sweep>>

UpsertTick ==
    /\ Tick
    /\ now' <= SweepHours

\* jobs_collection empty, or holding one job of the board
UpsertInit ==
    /\ now = 0
    /\ cosIn = NoCosIn
    /\ monitor = NoMonitor
    /\ sweep = NoSweep
    /\ upserts = NoUpserts
    /\ catalog \in {<<>>, <<CatalogJob("board", "a1", "engineer", "active", "", Some(0))>>}
    /\ jobs = [j \in JobIds |-> None]
    /\ profiles = [u \in Users |-> None]
    /\ links = NoStates
    /\ last = NoCall
    /\ rankIn = NoRankIn
    /\ scoreIn = NoScoreIn
    /\ scoreOut = None
    /\ inflight = NoInflight

UpsertNext ==
    \/ \E c \in UpsertCalls : UpsertFind(c)
    \/ \E c \in UpsertCalls : UpsertStore(c)
    \/ UpsertTick

UpsertSpec == UpsertInit /\ [][UpsertNext]_vars

-----------------------------------------------------------------------------
(* A stand-alone _cosine_similarity call                                   *)

\* Vectors of length 0, 1 and 2 with norms 0, 1 and 5,
\* at the scales 2^-600, 1 and 2^600.
CosineInts == {<<>>, <<0, 0>>, <<1>>, <<0, 1>>, <<3, 4>>, <<4, 3>>, <<-3, 4>>, <<-4, -3>>}
CosineScales == {-600, 0, 600}
CosineVectors == [ints : CosineInts, exp : CosineScales]

CosineInit ==
    /\ now = 0
    /\ upserts = NoUpserts
    /\ sweep = NoSweep
    /\ catalog = NoCatalog
    /\ monitor = NoMonitor
    /\ cosIn \in [a : CosineVectors, b : CosineVectors]
    /\ jobs = [j \in JobIds |-> None]
    /\ profiles = [u \in Users |-> None]
    /\ links = NoStates
    /\ last = NoCall
    /\ rankIn = NoRankIn
    /\ scoreIn = NoScoreIn
    /\ scoreOut = None
    /\ inflight = NoInflight

CosineSimilarity ==
    /\ last' = [NoCall EXCEPT !.op = "_cosine_similarity", !.outcome = "ok",
                              !.result = Some(_cosine_similarity(cosIn.a, cosIn.b))]
    /\ UNCHANGED <<now, jobs, profiles, links, rankIn, scoreIn, scoreOut, inflight, cosIn, monitor, catalog, sweep, upserts>>

CosineNext == CosineSimilarity

CosineSpec == CosineInit /\ [][CosineNext]_vars

-----------------------------------------------------------------------------
(* Similarity scorer and aggregator (ai_service.py)                        *)

\* dict.get(name, default)
Field(item, name, default) == IF name \in DOMAIN item THEN item[name] ELSE default

\* round(float(value), 3), in thousandths; None stays None
_clean_similarity(value) ==
    IF value = None THEN None
    ELSE Some(RoundHalfEven(1000 * Get(value).num, Get(value).den))

\* One provider call for the whole list; [] without a call for no texts.
_batched_embeddings(texts) == [i \in DOMAIN texts |-> EmbeddingOf(texts[i])]

\* The cleaned list with `item` under its stripped label, if that is not empty.
AppendRequirement(rest, item, label) ==
    IF label = "" THEN rest
    ELSE Append(rest, [label |-> label, critical |-> Field(item, "critical", FALSE)])

\* A cleaning that keeps the requirements whose label is blank.
CleanRequirements_KeepBlank(requirements, label_field) ==
    IF requirements = <<>> THEN <<>>
    ELSE [i \in DOMAIN requirements |->
            [label |-> Strip(Field(requirements[i], label_field, "")),
             critical |-> Field(requirements[i], "critical", FALSE)]]

RECURSIVE CleanRequirements(_, _)
\* cleaned_requirements: the items whose stripped label is not empty
CleanRequirements(requirements, label_field) ==
    IF requirements = <<>> THEN <<>>
    ELSE AppendRequirement(CleanRequirements(Front(requirements), label_field),
                           Last(requirements),
                           Strip(Field(Last(requirements), label_field, "")))

AppendText(rest, text) == IF text = "" THEN rest ELSE Append(rest, text)

\* A cleaning that keeps the blank snippets.
CleanEvidence_KeepBlank(evidence_texts) == evidence_texts

RECURSIVE CleanEvidence(_)
\* [text.strip() for text in evidence_texts if str(text).strip()]
CleanEvidence(evidence_texts) ==
    IF evidence_texts = <<>> THEN <<>>
    ELSE AppendText(CleanEvidence(Front(evidence_texts)), Strip(Last(evidence_texts)))

\* A weight that ignores critical.
RequirementWeight_Flat(item) == 1

\* 2 if item["critical"] else 1
RequirementWeight(item) == IF item.critical THEN 2 ELSE 1

RECURSIVE SumWeights(_)
SumWeights(items) ==
    IF items = <<>> THEN 0 ELSE SumWeights(Front(items)) + RequirementWeight(Last(items))

\* A comparison that lets an equal similarity replace the best match.
Better_LastWins(best, similarity, k) ==
    IF ~FractionLess(similarity, best.similarity)
    THEN [similarity |-> similarity, index |-> k]
    ELSE best

\* if similarity > best_similarity: the new best match is evidence k
Better(best, similarity, k) ==
    IF FractionLess(best.similarity, similarity)
    THEN [similarity |-> similarity, index |-> k]
    ELSE best

RECURSIVE BestMatch(_, _, _)
\* The inner loop over evidence_embeddings[1..k]: best_similarity starts at
\* -1.0 and only a strictly greater similarity replaces it; index 0 stands
\* for best_match = None.
BestMatch(req_vector, evidence_embeddings, k) ==
    IF k = 0 THEN [similarity |-> [num |-> -1, den |-> 1], index |-> 0]
    ELSE Better(BestMatch(req_vector, evidence_embeddings, k - 1),
                cosine_similarity(req_vector, evidence_embeddings[k]), k)

\* threshold: float = 0.72
DefaultThreshold == [num |-> 18, den |-> 25]

\* int(round(100 * matched_weight / total_weight)) if total_weight else 0
DimensionScore(matched_weight, total_weight) ==
    IF total_weight = 0 THEN 0 ELSE RoundHalfEven(100 * matched_weight, total_weight)

\* A classification whose threshold is exclusive.
Classify_Exclusive(item, evidence, best, threshold) ==
    IF best.index # 0 /\ FractionLess(threshold, best.similarity)
    THEN [hit |-> TRUE,
          entry |-> [requirement |-> item.label, critical |-> item.critical,
                     matched_text |-> evidence[best.index],
                     similarity |-> _clean_similarity(Some(best.similarity))]]
    ELSE [hit |-> FALSE,
          entry |-> [requirement |-> item.label, critical |-> item.critical,
                     similarity |-> _clean_similarity(Some(best.similarity))]]

\* The matched or missing entry of one requirement whose best match is `best`.
Classify(item, evidence, best, threshold) ==
    IF best.index # 0 /\ ~FractionLess(best.similarity, threshold)
    THEN [hit |-> TRUE,
          entry |-> [requirement |-> item.label, critical |-> item.critical,
                     matched_text |-> evidence[best.index],
                     similarity |-> _clean_similarity(Some(best.similarity))]]
    ELSE [hit |-> FALSE,
          entry |-> [requirement |-> item.label, critical |-> item.critical,
                     similarity |-> _clean_similarity(
                         IF best.similarity.num > -best.similarity.den
                         THEN Some(best.similarity) ELSE None)]]

\* The outer loop: embeddings holds the requirement vectors, then the
\* evidence vectors.
Classified(cleaned, evidence, embeddings, threshold) ==
    [idx \in DOMAIN cleaned |->
        Classify(cleaned[idx], evidence,
                 BestMatch(embeddings[idx],
                           SubSeq(embeddings, Len(cleaned) + 1, Len(embeddings)),
                           Len(evidence)),
                 threshold)]

IsHit(c) == c.hit

IsMiss(c) == ~c.hit

Entries(seq) == [i \in DOMAIN seq |-> seq[i].entry]

\* The result of a dimension with the lists matched and missing.
ScoredDimension(cleaned, matched, missing) ==
    [score |-> DimensionScore(SumWeights(matched), SumWeights(cleaned)),
     applicable |-> TRUE, matched |-> matched, missing |-> missing,
     weight |-> SumWeights(cleaned)]

\* A split that builds the missing list back to front.
SplitClassified_MissingReversed(cleaned, classified) ==
    ScoredDimension(cleaned, Entries(SelectSeq(classified, IsHit)),
                    [i \in DOMAIN SelectSeq(classified, IsMiss) |->
                        SelectSeq(classified, IsMiss)[
                            Len(SelectSeq(classified, IsMiss)) + 1 - i].entry])

SplitClassified(cleaned, classified) ==
    ScoredDimension(cleaned, Entries(SelectSeq(classified, IsHit)),
                    Entries(SelectSeq(classified, IsMiss)))

\* _score_requirements after the two lists were cleaned
ScoreCleaned(cleaned, evidence, threshold) ==
    IF cleaned = <<>>
    THEN [score |-> 100, applicable |-> FALSE, matched |-> <<>>, missing |-> <<>>,
          weight |-> 0]
    ELSE IF evidence = <<>>
    THEN [score |-> 0, applicable |-> TRUE, matched |-> <<>>,
          missing |-> [i \in DOMAIN cleaned |->
                         [requirement |-> cleaned[i].label,
                          critical |-> cleaned[i].critical, similarity |-> None]],
          weight |-> SumWeights(cleaned)]
    ELSE SplitClassified(cleaned,
             Classified(cleaned, evidence,
                        _batched_embeddings([i \in DOMAIN cleaned |-> cleaned[i].label]
                                            \o evidence),
                        threshold))

\* _score_requirements(requirements, evidence_texts, label_field=, threshold=)
_score_requirements(requirements, evidence_texts, label_field, threshold) ==
    ScoreCleaned(CleanRequirements(requirements, label_field),
                 CleanEvidence(evidence_texts), threshold)

\* The number of provider calls of one _score_requirements call.
ScoreRequirementsCalls(requirements, evidence_texts, label_field) ==
    IF CleanRequirements(requirements, label_field) = <<>>
          \/ CleanEvidence(evidence_texts) = <<>>
    THEN 0 ELSE 1

_score_keywords(requirements, resume_text, extra_evidence) ==
    _score_requirements(requirements, <<resume_text>> \o extra_evidence, "term",
                        DefaultThreshold)

\* head and part joined by one space, an empty part left out
JoinTwo(head, part) ==
    IF part = "" THEN head
    ELSE IF head = "" THEN part
    ELSE head \o " " \o part

RECURSIVE JoinParts(_)
\* " ".join(part for part in parts if part)
JoinParts(parts) ==
    IF parts = <<>> THEN "" ELSE JoinTwo(JoinParts(Front(parts)), Last(parts))

RECURSIVE ComposeEvidence(_, _)
\* The loop shared by the two composers: one stripped, non-empty text per item.
ComposeEvidence(items, fields) ==
    IF items = <<>> THEN <<>>
    ELSE AppendText(ComposeEvidence(Front(items), fields),
                    Strip(JoinParts([i \in DOMAIN fields |->
                                        Field(Last(items), fields[i], "")])))

_compose_experience_evidence(resume_data) ==
    ComposeEvidence(Field(resume_data, "work_experience", <<>>),
                    <<"role", "company", "tasks">>)

_compose_education_evidence(resume_data) ==
    ComposeEvidence(Field(resume_data, "education", <<>>),
                    <<"degree", "school", "year", "gpa">>)

\* DIMENSION_WEIGHTS, in hundredths
DIMENSION_WEIGHTS == [skills |-> 35, experience |-> 35, education |-> 15, keywords |-> 15]

\* The dimensions that pass `if result.get("applicable")`.
ActiveDimensions_All(breakdown) == DOMAIN breakdown

ActiveDimensions(breakdown) == {key \in DOMAIN breakdown : breakdown[key].applicable}

RECURSIVE SumOver(_, _)
SumOver(S, f) ==
    IF S = {} THEN 0
    ELSE LET x == CHOOSE y \in S : TRUE IN f[x] + SumOver(S \ {x}, f)

\* An overall score of 100 when nothing is applicable.
OverallScores_VacuousFull(weighted_score, active_weight) ==
    IF active_weight = 0 THEN {100}
    ELSE {RoundHalfEven(weighted_score, active_weight)}

\* int(round(weighted_score / active_weight)) if active_weight else 0.
\* The weights are binary floating-point numbers, none of them exactly 0.35
\* or 0.15, so a quotient that is exactly halfway between two integers comes
\* out slightly to one side or the other and round() returns either
\* neighbour; off a tie the rounding error is far too small to matter.
OverallScores(weighted_score, active_weight) ==
    IF active_weight = 0 THEN {0}
    ELSE IF 2 * (weighted_score % active_weight) = active_weight
    THEN {weighted_score \div active_weight, weighted_score \div active_weight + 1}
    ELSE {RoundHalfEven(weighted_score, active_weight)}

\* The four dimension results, from the three evidence lists.
BreakdownOf(job_data, resume_text, skills, experience, education) ==
    [skills |-> _score_requirements(Field(job_data, "skills", <<>>), skills,
                                    "name", DefaultThreshold),
     experience |-> _score_requirements(Field(job_data, "experience", <<>>), experience,
                                        "description", DefaultThreshold),
     education |-> _score_requirements(Field(job_data, "education", <<>>), education,
                                       "name", DefaultThreshold),
     keywords |-> _score_keywords(Field(job_data, "keywords", <<>>), resume_text,
                                  skills \o experience)]

\* The four dimension results of score_resume_against_job.
Breakdown(resume_data, job_data, resume_text) ==
    BreakdownOf(job_data, resume_text, Field(resume_data, "skills", <<>>),
                _compose_experience_evidence(resume_data),
                _compose_education_evidence(resume_data))

\* The provider calls of the four dimensions, from the three evidence lists.
BreakdownCallsOf(job_data, resume_text, skills, experience, education) ==
    ScoreRequirementsCalls(Field(job_data, "skills", <<>>), skills, "name")
    + ScoreRequirementsCalls(Field(job_data, "experience", <<>>), experience, "description")
    + ScoreRequirementsCalls(Field(job_data, "education", <<>>), education, "name")
    + ScoreRequirementsCalls(Field(job_data, "keywords", <<>>),
                             <<resume_text>> \o skills \o experience, "term")

\* The provider calls of the four dimensions.
BreakdownCalls(resume_data, job_data, resume_text) ==
    BreakdownCallsOf(job_data, resume_text, Field(resume_data, "skills", <<>>),
                     _compose_experience_evidence(resume_data),
                     _compose_education_evidence(resume_data))

\* The results for the applicable dimensions `active`.
Aggregated(breakdown, calls, active) ==
    {[outcome |-> "ok", embed_calls |-> calls,
      result |-> Some([overall_score |-> overall_score, breakdown |-> breakdown,
                       weights |-> DIMENSION_WEIGHTS])] :
        overall_score \in
            OverallScores(SumOver(active, [key \in active |->
                                             DIMENSION_WEIGHTS[key] * breakdown[key].score]),
                          SumOver(active, DIMENSION_WEIGHTS))}

\* The results after the four dimensions were scored with `calls` provider calls.
ScoredBreakdown(breakdown, calls, fail) ==
    IF fail /\ calls > 0
    THEN {[outcome |-> "UpstreamError", embed_calls |-> 1, result |-> None]}
    ELSE Aggregated(breakdown, calls, ActiveDimensions(breakdown))

\* score_resume_against_job(resume_data, job_data, resume_text=): the results
\* it can return; the provider raises (fail) on the first call made to it.
score_resume_against_job(resume_data, job_data, resume_text, fail) ==
    ScoredBreakdown(Breakdown(resume_data, job_data, resume_text),
                    BreakdownCalls(resume_data, job_data, resume_text), fail)

-----------------------------------------------------------------------------
(* The scorer on its own: score_resume_against_job over drawn inputs       *)

Requirement(label_field, label, critical) ==
    [f \in {label_field, "critical"} |-> IF f = "critical" THEN critical ELSE label]

SkillRequirements ==
    {<<>>,
     <<Requirement("name", " ", TRUE)>>,
     <<Requirement("name", "python", TRUE), Requirement("name", "docker", FALSE)>>,
     <<Requirement("name", "python", FALSE), Requirement("name", " sql", FALSE)>>,
     <<Requirement("name", "sql", TRUE)>>}

ExperienceRequirements ==
    {<<>>,
     <<Requirement("description", "backend work", FALSE)>>,
     <<Requirement("description", "backend work", TRUE),
       Requirement("description", "docker", FALSE)>>}

EducationRequirements ==
    {<<>>,
     <<Requirement("name", "bsc", FALSE), Requirement("name", "msc", FALSE)>>,
     <<Requirement("name", "msc", TRUE), [name |-> "bsc"]>>}

KeywordRequirements ==
    {<<>>,
     <<Requirement("term", "python", TRUE), Requirement("term", "sql", TRUE),
       Requirement("term", "docker", FALSE)>>,
     <<Requirement("term", "docker", FALSE)>>}

ResumeSkills ==
    {<<>>, <<"python", "sql">>, <<"py3", " ">>, <<"anti">>, <<"legacy">>, <<"python3", "py3">>}

WorkExperience ==
    {<<>>,
     <<[role |-> "python", company |-> "acme", tasks |-> ""]>>,
     <<[role |-> "", company |-> " ", tasks |-> ""], [role |-> "", company |-> "", tasks |-> "docker"]>>}

Education ==
    {<<>>, <<[degree |-> "bsc", school |-> "", year |-> "", gpa |-> ""]>>}

ScoreInit ==
    /\ now = 0
    /\ upserts = NoUpserts
    /\ sweep = NoSweep
    /\ catalog = NoCatalog
    /\ monitor = NoMonitor
    /\ cosIn = NoCosIn
    /\ jobs = [j \in JobIds |-> None]
    /\ profiles = [u \in Users |-> None]
    /\ links = NoStates
    /\ last = NoCall
    /\ rankIn = NoRankIn
    /\ scoreIn \in [resume_data : [skills : ResumeSkills, work_experience : WorkExperience,
                                   education : Education],
                    job_data : [skills : SkillRequirements,
                                experience : ExperienceRequirements,
                                education : EducationRequirements,
                                keywords : KeywordRequirements],
                    resume_text : {"", "cv"}]
    /\ scoreOut = None
    /\ inflight = NoInflight

\* One score_resume_against_job call on the drawn inputs.
ScoreResume ==
    /\ \E fail \in BOOLEAN :
          \E done \in score_resume_against_job(scoreIn.resume_data, scoreIn.job_data,
                                               scoreIn.resume_text, fail) :
             /\ scoreOut' = done.result
             /\ last' = [NoCall EXCEPT !.op = "score_resume_against_job",
                                       !.outcome = done.outcome,
                                       !.embed_calls = done.embed_calls]
    /\ UNCHANGED <<now, jobs, profiles, links, rankIn, scoreIn, inflight, cosIn, monitor, catalog, sweep, upserts>>

ScoreNext == ScoreResume

ScoreSpec == ScoreInit /\ [][ScoreNext]_vars

-----------------------------------------------------------------------------
(* Properties of the job ranker, checked under RankSpec                    *)

RankCallOk == last.op = "_rank_jobs" /\ last.outcome = "ok"

PoolPos(j) == CHOOSE i \in DOMAIN last.pool : last.pool[i] = j

\* The scores the specification prescribes for job j of the last call, from
\* the documents as the call left them.
ExpectedPref(j) ==
    _evaluate_preferences(Get(jobs[j]), rankIn.preferences, rankIn.profile.skills).score

ExpectedSim(j) ==
    LET job_vector == Get(jobs[j]).embedding
        cos == cosine_similarity(rankIn.resume_vector, job_vector)
    IN  IF rankIn.resume_vector = <<>> \/ job_vector = <<>>
        THEN [num |-> 0, den |-> 1]
        ELSE [num |-> 70 * (IF cos.num > 0 THEN cos.num ELSE 0), den |-> cos.den]

ExpectedTotal(j) ==
    LET sim == ExpectedSim(j)
        sum == sim.num + ExpectedPref(j) * sim.den
    IN  [num |-> IF sum < 0 THEN 0 ELSE IF sum > 100 * sim.den THEN 100 * sim.den ELSE sum,
         den |-> sim.den]

\* ExpectedTotal rounded to two decimals, in hundredths
ExpectedRounded(j) == RoundHalfEven(100 * ExpectedTotal(j).num, ExpectedTotal(j).den)

IsPermutationOfPool ==
    /\ Len(last.items) = Len(last.pool)
    /\ {last.items[k].job : k \in DOMAIN last.items} = Range(last.pool)

\* C1: when the provider fails for one job of the batch, _rank_jobs still
\* returns normally, with every job of the pool in the result, the failed job
\* scored with sim_score 0 (its total is the clamped preference score alone).
C1_EmbeddingFailureIsIsolated ==
    last.op = "_rank_jobs" =>
        /\ last.outcome = "ok"
        /\ IsPermutationOfPool
        /\ \A k \in DOMAIN last.items :
              last.items[k].score = ExpectedRounded(last.items[k].job)

\* C7 (as stated): the result of _rank_jobs is a permutation of the pool in
\* descending order of total_score = clamp(sim_score + pref_score, 0, 100),
\* jobs of equal total_score in their input order.
C7_OrderedByTotalScore ==
    RankCallOk =>
        /\ IsPermutationOfPool
        /\ \A a, b \in DOMAIN last.items :
              a < b =>
                 LET x == ExpectedTotal(last.items[a].job)
                     y == ExpectedTotal(last.items[b].job)
                 IN  \/ FractionLess(y, x)
                     \/ /\ ~FractionLess(x, y)
                        /\ PoolPos(last.items[a].job) < PoolPos(last.items[b].job)

\* C7 (amended): the result of _rank_jobs is a permutation of the pool in
\* descending order of the reported score, which is total_score rounded to two
\* decimals; jobs of equal reported score keep their input order.
C7_OrderedByReportedScore ==
    RankCallOk =>
        /\ IsPermutationOfPool
        /\ \A a, b \in DOMAIN last.items :
              a < b =>
                 LET x == ExpectedRounded(last.items[a].job)
                     y == ExpectedRounded(last.items[b].job)
                 IN  \/ x > y
                     \/ x = y /\ PoolPos(last.items[a].job) < PoolPos(last.items[b].job)

\* Two jobs whose totals differ but round to the same reported score, the
\* larger total second in the pool and second in the result.
C7_Witness ==
    /\ RankCallOk
    /\ Len(last.items) = 2
    /\ last.items[1].job = last.pool[1]
    /\ last.items[1].score = last.items[2].score
    /\ FractionLess(ExpectedTotal(last.items[1].job), ExpectedTotal(last.items[2].job))

\* C8 (as stated): the score of every ranked job is exactly
\* clamp(sim_score + pref_score, 0, 100), sim_score = max(0, cosine) * 70
\* (0 without a resume or job vector), and lies in [0, 100].
C8_ScoreIsClampedSum ==
    RankCallOk =>
        \A k \in DOMAIN last.items :
           LET total == ExpectedTotal(last.items[k].job)
           IN  /\ last.items[k].score * total.den = 100 * total.num
               /\ last.items[k].score \in 0..10000

\* C8 (amended): the score of every ranked job is
\* clamp(sim_score + pref_score, 0, 100) rounded to two decimals, and lies in
\* [0, 100].
C8_ScoreIsRoundedClampedSum ==
    RankCallOk =>
        \A k \in DOMAIN last.items :
           /\ last.items[k].score = ExpectedRounded(last.items[k].job)
           /\ last.items[k].score \in 0..10000

\* A ranked job with a positive similarity whose total is not a whole number
\* of hundredths, so that the reported score is the rounded total.
C8_Witness ==
    /\ RankCallOk
    /\ \E k \in DOMAIN last.items :
          LET total == ExpectedTotal(last.items[k].job)
          IN  /\ ExpectedSim(last.items[k].job).num > 0
              /\ last.items[k].score * total.den # 100 * total.num
              /\ last.items[k].score = ExpectedRounded(last.items[k].job)

-----------------------------------------------------------------------------
(* Properties of the fit cache, checked under Spec                         *)

FitCall == last.op = "get_or_create_resume_fit"

\* The cache entry stored for (u, j), or None.
StoredEntry(store, u, j) ==
    IF IsSome(store[<<u, j>>]) THEN Get(store[<<u, j>>]).resume_score_cache ELSE None

\* entry is present and younger than 24 hours at t, by its updated_at
EntryFresh(entry, t) ==
    /\ IsSome(entry)
    /\ IsSome(Get(entry).updated_at)
    /\ t - Get(Get(entry).updated_at) < 24

\* entry is present and at least 24 hours old at t
EntryExpired(entry, t) ==
    /\ IsSome(entry)
    /\ IsSome(Get(entry).updated_at)
    /\ t - Get(Get(entry).updated_at) >= 24

\* The step is a get_or_create_resume_fit(u, j) call.
FitStep(u, j) ==
    /\ last'.op = "get_or_create_resume_fit"
    /\ last'.user = u
    /\ last'.job = j

C3_FreshHitHasNoSideEffect ==
    [][\A u \in Users, j \in JobIds :
          (FitStep(u, j) /\ EntryFresh(StoredEntry(links, u, j), now))
             => /\ last'.outcome = "ok"
                /\ last'.result = StoredEntry(links, u, j)
                /\ last'.job_reads = 0
                /\ last'.profile_reads = 0
                /\ last'.embed_calls = 0
                /\ last'.cache_writes = 0
                /\ links' = links
                /\ jobs' = jobs
                /\ profiles' = profiles]_vars

\* A hit one hour after the entry was written.
C3_Witness ==
    /\ FitCall
    /\ last.hit
    /\ last.at = 1
    /\ IsSome(last.result)
    /\ Get(last.result).updated_at = Some(0)
    /\ last.result = StoredEntry(links, last.user, last.job)

\* C4: an entry of age 24 hours or more is treated as absent by every read
\* path (get_or_create_resume_fit does not return it, recommend_for_user and
\* list_user_jobs do not show it) and yet stays in the store.
C4_ExpiredEntryIsAbsentOnEveryReadPath ==
    [][\A u \in Users, j \in JobIds :
          EntryExpired(StoredEntry(links, u, j), now) =>
             /\ FitStep(u, j) => ~last'.hit
             /\ (last'.op \in {"recommend_for_user", "list_user_jobs"} /\ last'.user = u)
                   => \A k \in DOMAIN last'.items :
                         last'.items[k].id = j => ~IsSome(last'.items[k].resume_score_cache)
             /\ IsSome(StoredEntry(links', u, j))]_vars

\* C5 (as stated): get_or_create_resume_fit fails with NotFound whenever no
\* job record exists for the job id, whatever the cache holds for the pair.
C5_NotFoundInEveryCacheState ==
    (FitCall /\ ~IsSome(jobs[last.job])) => last.outcome = "NotFound"

\* C5 (amended): with no job record for the job id, get_or_create_resume_fit
\* fails with NotFound when the cache holds no entry or an entry of age 24
\* hours or more, and writes nothing; when the cache holds a younger entry the
\* call returns that entry without looking the job up.
C5_NotFoundUnlessFreshHit ==
    [][\A u \in Users, j \in JobIds :
          (FitStep(u, j) /\ ~IsSome(jobs[j])) =>
             LET entry == StoredEntry(links, u, j)
             IN  IF EntryFresh(entry, now)
                 THEN /\ last'.outcome = "ok"
                      /\ last'.result = entry
                      /\ last'.job_reads = 0
                 ELSE /\ last'.outcome = "NotFound"
                      /\ last'.result = None
                      /\ last'.cache_writes = 0
                      /\ links' = links]_vars

\* NotFound for a job without a record, an entry of exactly 24 hours in the cache.
C5_Witness ==
    /\ FitCall
    /\ ~IsSome(jobs[last.job])
    /\ last.outcome = "NotFound"
    /\ EntryExpired(last.found, last.at)
    /\ last.at - Get(Get(last.found).updated_at) = 24
    /\ StoredEntry(links, last.user, last.job) = last.found

\* C6: a get_or_create_resume_fit call that misses the cache for a job on
\* record and a user without a profile ends with ProfileMissing: the profile
\* is looked up once, nothing is computed or written, and the cache entry of
\* the pair is what it was.
C6_ProfileMissingIsTerminal ==
    [][\A u \in Users, j \in JobIds :
          (/\ FitStep(u, j)
           /\ ~EntryFresh(StoredEntry(links, u, j), now)
           /\ IsSome(jobs[j])
           /\ ~IsSome(profiles[u]))
             => /\ last'.outcome = "ProfileMissing"
                /\ last'.result = None
                /\ last'.profile_reads = 1
                /\ last'.embed_calls = 0
                /\ last'.cache_writes = 0
                /\ links' = links
                /\ jobs' = jobs
                /\ profiles' = profiles]_vars

\* ProfileMissing on an expired entry, which is still stored.
C6_Witness ==
    /\ FitCall
    /\ last.outcome = "ProfileMissing"
    /\ EntryExpired(last.found, last.at)
    /\ StoredEntry(links, last.user, last.job) = last.found
    /\ ~IsSome(profiles[last.user])

-----------------------------------------------------------------------------
(* Properties of the scorer, checked under ScoreSpec                       *)

ScoreCallOk ==
    last.op = "score_resume_against_job" /\ last.outcome = "ok" /\ IsSome(scoreOut)

\* The base weights of the specification, in hundredths.
BaseWeight == [skills |-> 35, experience |-> 35, education |-> 15, keywords |-> 15]

ApplicableDimensions == {d \in DOMAIN BaseWeight : Get(scoreOut).breakdown[d].applicable}

ExpectedActiveWeight == SumOver(ApplicableDimensions, BaseWeight)

ExpectedWeightedSum ==
    SumOver(ApplicableDimensions,
            [d \in DOMAIN BaseWeight |-> BaseWeight[d] * Get(scoreOut).breakdown[d].score])

\* C9: overall_score is weighted_sum / active_weight rounded to a nearest
\* integer, both sums taken over exactly the applicable dimensions with base
\* weights 0.35, 0.35, 0.15, 0.15, so that the 100 of an inapplicable
\* dimension never counts; skills 67, experience inapplicable, education 50
\* and keywords 80 give 66.
C9_OverallIsRenormalizedWeightedMean ==
    ScoreCallOk =>
        LET overall == Get(scoreOut).overall_score
            breakdown == Get(scoreOut).breakdown
        IN  /\ ExpectedActiveWeight > 0 =>
                  /\ 2 * overall * ExpectedActiveWeight - 2 * ExpectedWeightedSum
                        <= ExpectedActiveWeight
                  /\ 2 * ExpectedWeightedSum - 2 * overall * ExpectedActiveWeight
                        <= ExpectedActiveWeight
            /\ (/\ breakdown.skills.applicable /\ breakdown.skills.score = 67
                /\ ~breakdown.experience.applicable
                /\ breakdown.education.applicable /\ breakdown.education.score = 50
                /\ breakdown.keywords.applicable /\ breakdown.keywords.score = 80)
                  => overall = 66

\* The example of the specification: 67, inapplicable (carrying 100), 50, 80.
C9_Witness ==
    /\ ScoreCallOk
    /\ Get(scoreOut).breakdown.skills.applicable
    /\ Get(scoreOut).breakdown.skills.score = 67
    /\ ~Get(scoreOut).breakdown.experience.applicable
    /\ Get(scoreOut).breakdown.experience.score = 100
    /\ Get(scoreOut).breakdown.education.applicable
    /\ Get(scoreOut).breakdown.education.score = 50
    /\ Get(scoreOut).breakdown.keywords.applicable
    /\ Get(scoreOut).breakdown.keywords.score = 80
    /\ Get(scoreOut).overall_score = 66

\* C10: in every result of score_resume_against_job each dimension score is
\* an integer in [0, 100], and overall_score is an integer in [0, 100] that
\* is 0 when none of the four dimensions is applicable.
C10_ScoresInRange ==
    ScoreCallOk =>
        /\ \A d \in DOMAIN BaseWeight : Get(scoreOut).breakdown[d].score \in 0..100
        /\ Get(scoreOut).overall_score \in 0..100
        /\ ApplicableDimensions = {} => Get(scoreOut).overall_score = 0

\* No dimension applicable (each carrying 100), overall score 0.
C10_Witness ==
    /\ ScoreCallOk
    /\ ApplicableDimensions = {}
    /\ \A d \in DOMAIN BaseWeight : Get(scoreOut).breakdown[d].score = 100
    /\ Get(scoreOut).overall_score = 0

-----------------------------------------------------------------------------
(* Properties of one dimension (_score_requirements), checked under        *)
(* ScoreSpec on each of the four dimensions of the returned breakdown      *)

DimensionNames == {"skills", "experience", "education", "keywords"}

\* The field that holds the label of a requirement of each dimension.
LabelField ==
    [skills |-> "name", experience |-> "description", education |-> "name",
     keywords |-> "term"]

\* The requirement list and the evidence list handed to dimension d.
RequirementsOf(d) == scoreIn.job_data[d]

EvidenceOf(d) ==
    CASE d = "skills" -> scoreIn.resume_data.skills
      [] d = "experience" -> _compose_experience_evidence(scoreIn.resume_data)
      [] d = "education" -> _compose_education_evidence(scoreIn.resume_data)
      [] d = "keywords" -> <<scoreIn.resume_text>> \o scoreIn.resume_data.skills
                              \o _compose_experience_evidence(scoreIn.resume_data)

\* The trimmed label of requirement i, "" when the field is not there.
LabelAt(d, i) ==
    IF LabelField[d] \in DOMAIN RequirementsOf(d)[i]
    THEN Strip(RequirementsOf(d)[i][LabelField[d]]) ELSE ""

\* The positions of the requirements with a label and of the evidence
\* snippets that are not blank.
LabelledAt(d) == {i \in DOMAIN RequirementsOf(d) : LabelAt(d, i) # ""}

EvidenceAt(d) == {k \in DOMAIN EvidenceOf(d) : Strip(EvidenceOf(d)[k]) # ""}

\* The result of dimension d.
Dimension(d) == Get(scoreOut).breakdown[d]

\* C11: a dimension whose requirement list is empty, or holds only labels
\* that are empty after trimming, is returned as applicable = false with
\* score 100, weight 0 and empty matched and missing lists, whatever its
\* evidence; such a dimension makes no embedding call (there is at most one
\* call per dimension with a labelled requirement); and applicable is false
\* for no other dimension.
C11_UnlabelledDimensionIsInapplicable ==
    ScoreCallOk =>
        /\ \A d \in DimensionNames :
              LabelledAt(d) = {}
                 => Dimension(d) = [score |-> 100, applicable |-> FALSE, matched |-> <<>>,
                                    missing |-> <<>>, weight |-> 0]
        /\ \A d \in DimensionNames : ~Dimension(d).applicable => LabelledAt(d) = {}
        /\ last.embed_calls <= Cardinality({d \in DimensionNames : LabelledAt(d) # {}})

\* A skills dimension with one requirement, whose label is blank, and with
\* evidence: inapplicable, and no embedding call in the whole scoring.
C11_Witness ==
    /\ ScoreCallOk
    /\ RequirementsOf("skills") # <<>>
    /\ LabelledAt("skills") = {}
    /\ EvidenceAt("skills") # {}
    /\ ~Dimension("skills").applicable
    /\ Dimension("skills").score = 100
    /\ last.embed_calls = 0

\* Whether requirement i of dimension d is critical, and the weights the
\* specification gives: 2 for a critical requirement, 1 for another.
CriticalAt(d, i) ==
    "critical" \in DOMAIN RequirementsOf(d)[i] /\ RequirementsOf(d)[i].critical

WeightOver(d, S) ==
    2 * Cardinality({i \in S : CriticalAt(d, i)}) + Cardinality({i \in S : ~CriticalAt(d, i)})

TotalWeightOf(d) == WeightOver(d, LabelledAt(d))

\* C12: a dimension with at least one labelled requirement and an evidence
\* list that is empty or holds only blank snippets is returned as applicable
\* = true with score 0, weight = total_weight, an empty matched list, and a
\* missing list that holds every labelled requirement, each with similarity
\* null; such a dimension makes no embedding call (there is at most one call
\* per dimension that has both a labelled requirement and evidence).
C12_NoEvidenceScoresZero ==
    ScoreCallOk =>
        /\ \A d \in DimensionNames :
              (LabelledAt(d) # {} /\ EvidenceAt(d) = {})
                 => /\ Dimension(d).applicable
                    /\ Dimension(d).score = 0
                    /\ Dimension(d).weight = TotalWeightOf(d)
                    /\ Dimension(d).matched = <<>>
                    /\ Len(Dimension(d).missing) = Cardinality(LabelledAt(d))
                    /\ \A i \in LabelledAt(d) :
                          \E k \in DOMAIN Dimension(d).missing :
                             Dimension(d).missing[k] =
                                [requirement |-> LabelAt(d, i), critical |-> CriticalAt(d, i),
                                 similarity |-> None]
        /\ last.embed_calls
              <= Cardinality({d \in DimensionNames : LabelledAt(d) # {} /\ EvidenceAt(d) # {}})

\* Three keyword requirements against an evidence list that holds one blank
\* snippet (the empty resume text): score 0, three missing, no call at all.
C12_Witness ==
    /\ ScoreCallOk
    /\ Cardinality(LabelledAt("keywords")) = 3
    /\ EvidenceOf("keywords") # <<>>
    /\ EvidenceAt("keywords") = {}
    /\ Dimension("keywords").applicable
    /\ Dimension("keywords").score = 0
    /\ Dimension("keywords").weight = 5
    /\ Len(Dimension("keywords").missing) = 3
    /\ last.embed_calls = 0

\* The cosine of requirement i of dimension d and evidence snippet k.
CosineAt(d, i, k) ==
    cosine_similarity(EmbeddingOf(LabelAt(d, i)), EmbeddingOf(Strip(EvidenceOf(d)[k])))

\* The snippets whose cosine with requirement i is the greatest.
BestEvidenceAt(d, i) ==
    {k \in EvidenceAt(d) :
        \A other \in EvidenceAt(d) : ~FractionLess(CosineAt(d, i, k), CosineAt(d, i, other))}

\* The default threshold of the specification, 0.72.
SpecThreshold == [num |-> 72, den |-> 100]

\* The greatest cosine of requirement i reaches the threshold.
ReachesThreshold(d, i) ==
    \E k \in BestEvidenceAt(d, i) : ~FractionLess(CosineAt(d, i, k), SpecThreshold)

\* The entries of requirement i in the two lists of dimension d.
MatchedEntries(d, i) ==
    {m \in DOMAIN Dimension(d).matched :
        Dimension(d).matched[m].requirement = LabelAt(d, i)}

MissingEntries(d, i) ==
    {m \in DOMAIN Dimension(d).missing :
        Dimension(d).missing[m].requirement = LabelAt(d, i)}

\* The dimensions that compare requirements with evidence.
Compared(d) == LabelledAt(d) # {} /\ EvidenceAt(d) # {}

\* C13: with labelled requirements and non-blank evidence, a requirement is
\* in the matched list exactly when its greatest cosine over the evidence
\* snippets is at least the threshold 0.72 (a cosine of exactly 0.72
\* matches), its matched_text then is a snippet that attains that greatest
\* cosine, and otherwise the requirement is in the missing list; it is never
\* in both.
C13_MatchedIffBestReachesThreshold ==
    ScoreCallOk =>
        \A d \in DimensionNames :
           Compared(d) =>
              \A i \in LabelledAt(d) :
                 /\ Cardinality(MatchedEntries(d, i)) + Cardinality(MissingEntries(d, i)) = 1
                 /\ MatchedEntries(d, i) # {} <=> ReachesThreshold(d, i)
                 /\ \A m \in MatchedEntries(d, i) :
                       Dimension(d).matched[m].matched_text
                          \in {Strip(EvidenceOf(d)[k]) : k \in BestEvidenceAt(d, i)}

\* The skill "python" against the snippet "py3", whose cosine is exactly
\* 0.72: matched with that snippet; "docker" in the same list is missing.
C13_Witness ==
    /\ ScoreCallOk
    /\ Compared("skills")
    /\ \E i \in LabelledAt("skills") :
          /\ LabelAt("skills", i) = "python"
          /\ \A k \in BestEvidenceAt("skills", i) :
                CosineAt("skills", i, k).num * 100 = 72 * CosineAt("skills", i, k).den
          /\ \E m \in MatchedEntries("skills", i) :
                Dimension("skills").matched[m].matched_text = "py3"
    /\ \E i \in LabelledAt("skills") : MissingEntries("skills", i) # {}

\* The weight of the requirements of dimension d that are in its matched list.
MatchedWeightOf(d) == WeightOver(d, {i \in LabelledAt(d) : MatchedEntries(d, i) # {}})

\* C14: for an applicable dimension, weight is total_weight, the sum over
\* the labelled requirements of 2 for a critical and 1 for another one, and
\* score is 100 * matched_weight / total_weight rounded to a nearest integer,
\* matched_weight being the same sum over the matched requirements; two
\* requirements, one critical and one not, with only the critical one
\* matched, score 67.
C14_ScoreIsWeightedShareOfMatched ==
    ScoreCallOk =>
        \A d \in DimensionNames :
           Dimension(d).applicable =>
              /\ Dimension(d).weight = TotalWeightOf(d)
              /\ 2 * (Dimension(d).score * TotalWeightOf(d) - 100 * MatchedWeightOf(d))
                    <= TotalWeightOf(d)
              /\ 2 * (100 * MatchedWeightOf(d) - Dimension(d).score * TotalWeightOf(d))
                    <= TotalWeightOf(d)
              /\ (/\ Cardinality(LabelledAt(d)) = 2
                  /\ \E i \in LabelledAt(d) : CriticalAt(d, i)
                  /\ \E i \in LabelledAt(d) : ~CriticalAt(d, i)
                  /\ \A i \in LabelledAt(d) : MatchedEntries(d, i) # {} <=> CriticalAt(d, i))
                    => Dimension(d).score = 67

\* The example of the specification on the skills: "python" critical and
\* matched, "docker" not critical and missing, weight 3, score 67.
C14_Witness ==
    /\ ScoreCallOk
    /\ Dimension("skills").applicable
    /\ Cardinality(LabelledAt("skills")) = 2
    /\ \A i \in LabelledAt("skills") :
          MatchedEntries("skills", i) # {} <=> CriticalAt("skills", i)
    /\ MatchedWeightOf("skills") = 2
    /\ Dimension("skills").weight = 3
    /\ Dimension("skills").score = 67

\* The similarities, in thousandths, that the entries of dimension d carry.
SimilaritiesOf(d) ==
    {Dimension(d).matched[m].similarity : m \in DOMAIN Dimension(d).matched}
       \cup {Dimension(d).missing[m].similarity : m \in DOMAIN Dimension(d).missing}

\* C15: every similarity that an entry of a dimension carries, in the
\* matched and in the missing list, is null or lies in [0, 1], also for a
\* requirement whose cosine with every evidence snippet is negative.
C15_SimilarityInUnitInterval ==
    ScoreCallOk =>
        \A d \in DimensionNames :
           \A similarity \in SimilaritiesOf(d) :
              IsSome(similarity) => Get(similarity) \in 0..1000

\* round(x, 3) of a fraction, in thousandths.
Round3(x) == RoundHalfEven(1000 * x.num, x.den)

\* The entries of requirement i of dimension d, from both lists.
EntriesOf(d, i) ==
    {Dimension(d).matched[m] : m \in MatchedEntries(d, i)}
       \cup {Dimension(d).missing[m] : m \in MissingEntries(d, i)}

\* C16: a requirement that is compared with a non-blank evidence list gets
\* an entry, matched or missing, whose similarity is not null and is the
\* greatest cosine over the snippets rounded to 3 decimals, whatever that
\* greatest cosine is, -1 included; a null similarity occurs only in a
\* dimension without evidence.
C16_SimilarityIsRecordedWheneverCompared ==
    ScoreCallOk =>
        \A d \in DimensionNames :
           /\ Compared(d) =>
                 \A i \in LabelledAt(d) :
                    \A entry \in EntriesOf(d, i) :
                       \E k \in BestEvidenceAt(d, i) :
                          entry.similarity = Some(Round3(CosineAt(d, i, k)))
           /\ None \in SimilaritiesOf(d) => EvidenceAt(d) = {}

-----------------------------------------------------------------------------
(* Properties of the preference evaluator, checked under PrefSpec          *)

PrefCallOk == last.op = "_evaluate_preferences" /\ last.outcome = "ok"

\* The job, the preferences and the profile skills of the last call.
PrefJob == Get(jobs[last.job])

\* Two lists share an element, compared without regard to case.
SharesIgnoringCase(xs, ys) ==
    \E a \in DOMAIN xs, b \in DOMAIN ys : Lower(xs[a]) = Lower(ys[b])

\* The six rules of the specification.
RoleRule == SharesIgnoringCase(PrefJob.categories, rankIn.preferences.role_families)

SeniorityRule == SharesIgnoringCase(PrefJob.levels, rankIn.preferences.seniority_levels)

CompanySizeRule ==
    /\ IsSome(PrefJob.metadata)
    /\ Get(PrefJob.metadata).company_size # ""
    /\ SharesIgnoringCase(<<Get(PrefJob.metadata).company_size>>,
                          rankIn.preferences.company_sizes)

LikedIndustryRule ==
    /\ IsSome(PrefJob.metadata)
    /\ SharesIgnoringCase(Get(PrefJob.metadata).industry, rankIn.preferences.industries_like)

AvoidedIndustryRule ==
    /\ IsSome(PrefJob.metadata)
    /\ SharesIgnoringCase(Get(PrefJob.metadata).industry, rankIn.preferences.industries_avoid)

SkillRule == SharesIgnoringCase(PrefJob.skills, rankIn.profile.skills)

\* The reason of each rule that fires.
ExpectedReasonKinds ==
    {kind \in {"Matches preferred role focus", "Requested seniority level",
               "Preferred company size", "Preferred industry",
               "Industry on avoid list", "Skill overlap"} :
        \/ kind = "Matches preferred role focus" /\ RoleRule
        \/ kind = "Requested seniority level" /\ SeniorityRule
        \/ kind = "Preferred company size" /\ CompanySizeRule
        \/ kind = "Preferred industry" /\ LikedIndustryRule
        \/ kind = "Industry on avoid list" /\ AvoidedIndustryRule
        \/ kind = "Skill overlap" /\ SkillRule}

\* C17: the score of _evaluate_preferences is 10 for each of the rules role,
\* seniority, company size, liked industry and skill overlap that fires,
\* minus 10 if the avoided-industry rule fires; the comparisons ignore case;
\* every rule that fires contributes exactly one reason, liked and avoided
\* industry both when both fire; the score is not clamped, lies in -10..50
\* and is negative only when the avoided-industry rule fires.
C17_ScoreIsTenPerRule ==
    PrefCallOk =>
        /\ Get(last.result).score
              = 10 * Cardinality(ExpectedReasonKinds \ {"Industry on avoid list"})
                - (IF AvoidedIndustryRule THEN 10 ELSE 0)
        /\ Len(Get(last.result).reasons) = Cardinality(ExpectedReasonKinds)
        /\ {Get(last.result).reasons[k].kind : k \in DOMAIN Get(last.result).reasons}
              = ExpectedReasonKinds
        /\ Get(last.result).score \in -10..50
        /\ Get(last.result).score < 0 => AvoidedIndustryRule

\* A job in a liked and in an avoided industry: both reasons, net 0 from the
\* two, and nothing else fires.
C17_Witness ==
    /\ PrefCallOk
    /\ LikedIndustryRule
    /\ AvoidedIndustryRule
    /\ ExpectedReasonKinds = {"Preferred industry", "Industry on avoid list"}
    /\ Get(last.result).score = 0
    /\ Len(Get(last.result).reasons) = 2

\* The skills of the job, as spelled on the job record, that the profile
\* also has when case is ignored.
CommonSkillsAsOnJob ==
    {PrefJob.skills[a] : a \in {b \in DOMAIN PrefJob.skills :
                                   SharesIgnoringCase(<<PrefJob.skills[b]>>,
                                                      rankIn.profile.skills)}}

\* The skills listed by the skill-overlap reason of the last call.
ListedSkills ==
    UNION {Range(Get(last.result).reasons[k].items) :
             k \in {r \in DOMAIN Get(last.result).reasons :
                       Get(last.result).reasons[r].kind = "Skill overlap"}}

\* C18: when the skill-overlap rule fires, its reason lists exactly the
\* skills the job and the profile have in common when case is ignored, each
\* spelled as on the job record.
C18_SkillReasonKeepsJobSpelling ==
    (PrefCallOk /\ SkillRule) => ListedSkills = CommonSkillsAsOnJob

-----------------------------------------------------------------------------
(* Properties of two concurrent get_or_create_resume_fit calls, checked    *)
(* under ConcSpec                                                          *)

AllDone == \A c \in Calls : inflight[c].pc = "done"

\* the calls that wrote the cache
Writers == {c \in Calls : IsSome(inflight[c].written_at)}

\* what cache_resume_score stores for call c: its whole payload, stamped
WrittenBy(c) ==
    [Get(inflight[c].payload) EXCEPT !.updated_at = inflight[c].written_at]

\* the positions of a call, in the order of the code
Position ==
    [start |-> 0, job |-> 1, profile |-> 2, resume |-> 3, resume_store |-> 4,
     job_embedding |-> 5, job_store |-> 6, cache |-> 7, done |-> 8]

\* a call that has not ended is at a step that waits for nothing the other
\* call holds: what the step reads is in the call's own frame
NeverWaits ==
    \A c \in Calls :
        /\ inflight[c].pc \in DOMAIN Position
        /\ inflight[c].pc \in {"resume", "resume_store", "job_embedding", "job_store", "cache"}
              => IsSome(inflight[c].job_doc) /\ IsSome(inflight[c].profile)
        /\ inflight[c].pc = "cache" => IsSome(inflight[c].payload)

\* every step of a call takes it to a later position, so it ends within
\* eight steps of its own
MovesForward ==
    \A c \in Calls :
        inflight'[c] # inflight[c]
            => Position[inflight'[c].pc] > Position[inflight[c].pc]

\* every call that has ended returned a result
EndedWithResult ==
    \A c \in Calls :
        inflight[c].pc = "done" => inflight[c].outcome = "ok" /\ IsSome(inflight[c].result)

\* the stored entry is the whole result of one of the calls
StoredIsOneWholeResult ==
    AllDone => \E c \in Writers : StoredEntry(links, "u1", "j1") = Some(WrittenBy(c))

\* the results agree on the given fields
ResultsAgreeOn(fields) ==
    AllDone =>
        \A c, d \in Calls :
            \A f \in fields : Get(inflight[c].result)[f] = Get(inflight[d].result)[f]

-----------------------------------------------------------------------------
(* Lifetime of a fit cache entry, checked under EngineSpec                 *)

\* an entry that exists before the step exists after it
EntriesOutlive ==
    \A u \in Users, j \in JobIds :
        IsSome(StoredEntry(links, u, j)) => IsSome(StoredEntry(links', u, j))

\* C20: once a fit cache entry exists for (user, job), it is present in every
\* later state reached by the operations of the engine: recomputation
\* overwrites it, save_job_for_user leaves it as it is, and delete_saved_job
\* does not delete it.
C20_EntryIsNeverDeleted == [][EntriesOutlive]_vars

-----------------------------------------------------------------------------
(* Failures of the primary subject, checked under Spec                     *)

RecommendStep(u) ==
    /\ last'.op = "recommend_for_user"
    /\ last'.user = u

\* C21: when no profile exists for the user, the fit computation on a cache
\* miss and recommend_for_user both end in an error, not in a normal result.
C21_MissingProfileIsAnError ==
    [][\A u \in Users :
          ~IsSome(profiles[u]) =>
             /\ RecommendStep(u) => last'.outcome # "ok"
             /\ \A j \in JobIds :
                   (/\ FitStep(u, j)
                    /\ ~EntryFresh(StoredEntry(links, u, j), now)
                    /\ IsSome(jobs[j]))
                      => last'.outcome # "ok"]_vars

-----------------------------------------------------------------------------
(* Properties of the fit computation, checked under FitSpec                *)

\* a get_or_create_resume_fit call that computed the fit and returned it
FitComputedOk == FitCall /\ last.outcome = "ok" /\ ~last.hit

FitJob == Get(jobs[last.job])
FitProfile == Get(profiles[last.user])

\* the distinct skills of a list: stripped, lower-cased, blanks dropped
DistinctSkills(skills) == {Lower(Strip(skills[i])) : i \in DOMAIN skills} \ {""}

\* max(0, cosine) of the two embeddings, 0 when either is missing
SpecSimilarity ==
    LET rv == _embed_text(FitProfile.text)
        jv == _embed_text(FitJob.text)
        cos == cosine_similarity(rv, jv)
    IN  IF rv = <<>> \/ jv = <<>> \/ cos.num <= 0 THEN [num |-> 0, den |-> 1] ELSE cos

\* |matched| / |job_skills|, 0 when the job has no skills
SpecMatchRatio ==
    LET wanted == DistinctSkills(FitJob.skills)
        held == DistinctSkills(FitProfile.skills)
    IN  IF wanted = {} THEN [num |-> 0, den |-> 1]
        ELSE [num |-> Cardinality(wanted \cap held), den |-> Cardinality(wanted)]

\* similarity * 60 + match_ratio * 40, as a fraction
SpecBlend ==
    [num |-> 60 * SpecSimilarity.num * SpecMatchRatio.den
                 + 40 * SpecMatchRatio.num * SpecSimilarity.den,
     den |-> SpecSimilarity.den * SpecMatchRatio.den]

\* n is an integer nearest to the fraction x
IsNearest(n, x) ==
    /\ 2 * (n * x.den - x.num) <= x.den
    /\ 2 * (x.num - n * x.den) <= x.den

LowerOf(seq) == {Lower(seq[i]) : i \in DOMAIN seq}

\* C22: the fit score is round(similarity * 60 + match_ratio * 40) within
\* [0, 100], with similarity = max(0, cosine) (0 when an embedding is missing)
\* and match_ratio = |matched| / |job_skills| over the distinct skills (0 when
\* the job has none); matched and gaps partition the job's distinct skills.
C22_FitScoreIsTwoSignalBlend ==
    FitComputedOk =>
        LET result == Get(last.result)
            wanted == DistinctSkills(FitJob.skills)
        IN  /\ IsNearest(result.score, SpecBlend)
            /\ result.score \in 0..100
            /\ LowerOf(result.matched) = wanted \cap DistinctSkills(FitProfile.skills)
            /\ LowerOf(result.gaps) = wanted \ DistinctSkills(FitProfile.skills)
            /\ Len(result.matched) + Len(result.gaps) = Cardinality(wanted)
            /\ SpecMatchRatio.num = Len(result.matched)
            /\ SpecMatchRatio.num <= SpecMatchRatio.den

\* both signals count: a similarity strictly between 0 and 1 and a job of
\* which the profile holds some skills but not all
C22_Witness ==
    /\ FitComputedOk
    /\ SpecSimilarity.num > 0
    /\ SpecSimilarity.num < SpecSimilarity.den
    /\ Get(last.result).matched # <<>>
    /\ Get(last.result).gaps # <<>>
    /\ Get(last.result).score \in 1..99

-----------------------------------------------------------------------------
(* The job embedding cache across ranking calls, checked under RankSpec    *)

RankCallStep == last'.op = "_rank_jobs"

\* before the call: a resume vector is given and job j holds no embedding
Uncached(j) == rankIn.resume_vector # <<>> /\ Get(jobs[j]).embedding = <<>>

\* the jobs of the pool for which the claim has the provider invoked
UncachedInPool == {j \in Range(rankIn.pool) : Uncached(j)}

\* the jobs of the pool that have a text to embed as well
Embeddable == {j \in UncachedInPool : Get(jobs[j]).text # ""}

\* the positions at which the provider is asked and raises in this call
FailingAt == {k \in DOMAIN rankIn.pool :
                 rankIn.pool[k] \in Embeddable /\ rankIn.pool[k] \in last'.fails}

\* the loop reaches position k: the provider has raised at no earlier one
ReachedAt(k) == \A f \in FailingAt : k <= f

\* the jobs for which the provider is invoked in this call
Invoked == {rankIn.pool[k] : k \in {i \in DOMAIN rankIn.pool :
                                       rankIn.pool[i] \in Embeddable /\ ReachedAt(i)}}

\* job j is written in this step: the computed vector and the time
Written(j) ==
    jobs'[j] = Some([Get(jobs[j]) EXCEPT !.embedding = EmbeddingOf(Get(jobs[j]).text),
                                         !.embedding_updated_at = Some(now)])

\* C23 (amended): in every ranking call of a sequence the provider is invoked
\* for a job exactly when resume_vector is present, the job record holds no
\* non-empty embedding, the job has a text to embed and the provider has
\* raised for no earlier job of the call; a vector it returns is written to
\* the record with the time, every other record is left as it is, so a job
\* that holds an embedding is never embedded again; without resume_vector
\* nothing is computed or written.
C23_ProviderIsInvokedOncePerJob ==
    [][RankCallStep =>
          /\ last'.embed_calls = Cardinality(Invoked)
          /\ \A j \in JobIds :
                IF j \in Invoked /\ j \notin last'.fails
                THEN Written(j) /\ Get(jobs'[j]).embedding # <<>>
                ELSE jobs'[j] = jobs[j]
          /\ \A j \in JobIds : Get(jobs[j]).embedding # <<>> => j \notin Invoked
          /\ rankIn.resume_vector = <<>> => last'.embed_calls = 0 /\ jobs' = jobs]_vars

\* C23 as stated: the provider is invoked for a job exactly when resume_vector
\* is present and the job record holds no non-empty embedding.
C23_InvokedIffUncached ==
    [][RankCallStep => last'.embed_calls = Cardinality(UncachedInPool)]_vars

\* a call that embedded one job of its pool and wrote the vector, and asked
\* nothing for the other, which has no text
C23_Witness ==
    /\ last.op = "_rank_jobs"
    /\ last.outcome = "ok"
    /\ last.embed_calls = 1
    /\ Len(last.pool) = 2
    /\ rankIn.resume_vector # <<>>
    /\ \E j, k \in Range(last.pool) :
          /\ Get(jobs[j]).embedding # <<>>
          /\ Get(jobs[j]).embedding_updated_at = Some(now)
          /\ Get(jobs[k]).text = ""
          /\ Get(jobs[k]).embedding = <<>>

-----------------------------------------------------------------------------
(* Properties of _cosine_similarity, checked under CosineSpec              *)

CosineCalled == last.op = "_cosine_similarity" /\ last.outcome = "ok"

CosineResult == Get(last.result)

\* some component of v is not zero
NonZeroVector(v) == \E i \in DOMAIN v.ints : v.ints[i] # 0

\* the squares of the components of v stay within the range of a float
SquaresInRange(v) == ~Underflows(2 * v.exp) /\ ~Overflows(2 * v.exp)

\* r is the number n / d
IsNumber(r, n, d) == r.kind = "num" /\ r.num * d = n * r.den

\* r = dot(a, b) / (||a|| * ||b||)
IsCosineOf(r, a, b) ==
    IsNumber(r, Dot(a.ints, b.ints), Sqrt(Dot(a.ints, a.ints)) * Sqrt(Dot(b.ints, b.ints)))

KthOf(S, k) == CHOOSE i \in S : Cardinality({j \in S : j < i}) = k - 1

\* The labels and critical flags of the requirements at the positions S of
\* dimension d, in input order.
RequirementsAt(d, S) ==
    [k \in 1..Cardinality(S) |->
        [requirement |-> LabelAt(d, KthOf(S, k)), critical |-> CriticalAt(d, KthOf(S, k))]]

\* The requirement and the critical flag of every entry of a list.
Named(entries) ==
    [k \in DOMAIN entries |->
        [requirement |-> entries[k].requirement, critical |-> entries[k].critical]]

\* C25: in the result of an applicable dimension the labelled requirements
\* are split over matched and missing: each is in exactly one list, once, and
\* each list keeps the input order; so the two lengths add up to the number of
\* labelled requirements, and a requirement with an empty label is in neither.
C25_MatchedAndMissingSplitTheRequirements ==
    ScoreCallOk =>
        \A d \in DimensionNames :
           Dimension(d).applicable =>
              /\ \E M \in SUBSET LabelledAt(d) :
                    /\ Named(Dimension(d).matched) = RequirementsAt(d, M)
                    /\ Named(Dimension(d).missing) = RequirementsAt(d, LabelledAt(d) \ M)
              /\ Len(Dimension(d).matched) + Len(Dimension(d).missing)
                    = Cardinality(LabelledAt(d))
              /\ \A k \in DOMAIN Dimension(d).matched : Dimension(d).matched[k].requirement # ""
              /\ \A k \in DOMAIN Dimension(d).missing : Dimension(d).missing[k].requirement # ""

\* keywords python, sql, docker: the first two matched, in that order, the
\* third missing
C25_Witness ==
    /\ ScoreCallOk
    /\ Len(Dimension("keywords").matched) = 2
    /\ Dimension("keywords").matched[1].requirement = "python"
    /\ Dimension("keywords").matched[2].requirement = "sql"
    /\ Len(Dimension("keywords").missing) = 1
    /\ Dimension("keywords").missing[1].requirement = "docker"

\* The first snippet, in evidence order, whose cosine with requirement i is
\* the greatest.
FirstBestEvidenceAt(d, i) ==
    CHOOSE k \in BestEvidenceAt(d, i) : \A other \in BestEvidenceAt(d, i) : k <= other

\* C26: the matched_text of a matched requirement is the first snippet, in
\* evidence order, that attains the greatest cosine: among snippets with the
\* same greatest cosine a later one does not replace an earlier one.
C26_FirstOfEqualSnippetsIsReported ==
    ScoreCallOk =>
        \A d \in DimensionNames :
           Compared(d) =>
              \A i \in LabelledAt(d) :
                 \A m \in MatchedEntries(d, i) :
                    Dimension(d).matched[m].matched_text
                       = Strip(EvidenceOf(d)[FirstBestEvidenceAt(d, i)])

\* the skill python against the snippets python3 and py3, both with cosine
\* 0.72: matched with python3, the first of the two
C26_Witness ==
    /\ ScoreCallOk
    /\ scoreIn.resume_data.skills = <<"python3", "py3">>
    /\ \E i \in LabelledAt("skills") :
          /\ LabelAt("skills", i) = "python"
          /\ Cardinality({Strip(EvidenceOf("skills")[k]) : k \in BestEvidenceAt("skills", i)}) = 2
          /\ \E m \in MatchedEntries("skills", i) :
                Dimension("skills").matched[m].matched_text = "python3"

-----------------------------------------------------------------------------
(* The saved list of a user, checked under EngineSpec                      *)

\* the jobs on record that user u has saved: save_job_for_user set a state
\* and delete_saved_job has not removed it since
SavedJobs(u) ==
    {j \in JobIds : /\ IsSome(jobs[j])
                    /\ IsSome(links[<<u, j>>])
                    /\ IsSome(Get(links[<<u, j>>]).state)}

\* C27: list_user_jobs(user) returns exactly the jobs the user has saved:
\* computing or caching a fit score for a pair does not add the job.
C27_ListHoldsTheSavedJobsOnly ==
    last.op = "list_user_jobs" =>
        {last.items[k].id : k \in DOMAIN last.items} = SavedJobs(last.user)

-----------------------------------------------------------------------------
(* C28                                                                     *)

AliveTasks == {t \in TaskIds : monitor.tasks[t] \in AliveStates}

AtMostOneTaskAlive == Cardinality(AliveTasks) <= 1

\* the state a completed stop_job_monitor leaves
StoppedMeansNoTask ==
    (last.op = "stop_job_monitor" /\ last.outcome \in {"stopped", "no_task"})
        => (AliveTasks = {} /\ monitor.handle = None)

\* one start_job_monitor or stop_job_monitor call returning
MonitorCallStep ==
    /\ last'.op \in {"start_job_monitor", "stop_job_monitor"}
    /\ last'.outcome # "awaiting"
    /\ monitor' # monitor \/ last' # last

StartWhileRunningCreatesNothing ==
    (last'.op = "start_job_monitor" /\ AliveTasks # {})
        => (monitor' = monitor)

StopWithoutTaskChangesNothing ==
    (last'.op = "stop_job_monitor" /\ monitor.handle = None /\ ~monitor.stopping)
        => (monitor' = monitor)

StartAfterStopCreatesTask ==
    (last'.op = "start_job_monitor" /\ AliveTasks = {})
        => \E t \in TaskIds :
              /\ monitor.tasks[t] = "none"
              /\ monitor'.tasks[t] = "cycle"
              /\ monitor'.handle = Some(t)
              /\ \A o \in TaskIds \ {t} : monitor'.tasks[o] = monitor.tasks[o]

\* C28: with start_job_monitor and stop_job_monitor called one after the
\* other, at most one monitor task is alive in every state; a start that finds
\* a task alive creates nothing; a stop that has returned leaves no task alive
\* and the handle None; a stop without a task changes nothing; and a start
\* that finds no task alive creates one new running task and keeps its handle.
C28_AtMostOneMonitorTask ==
    /\ [](AtMostOneTaskAlive /\ StoppedMeansNoTask)
    /\ [][MonitorCallStep =>
            /\ StartWhileRunningCreatesNothing
            /\ StopWithoutTaskChangesNothing
            /\ StartAfterStopCreatesTask]_vars

\* a second task runs after the first was stopped, and a stop has returned
\* with no task left
C28_Witness ==
    /\ monitor.created >= 2
    /\ monitor.tasks[1] = "done"
    /\ last.op = "stop_job_monitor" /\ last.outcome = "stopped"
    /\ monitor.handle = None

C28_RestartWitness ==
    /\ monitor.tasks[1] = "done"
    /\ monitor.tasks[2] \in AliveStates
    /\ last.op = "start_job_monitor" /\ last.outcome = "skipped"

-----------------------------------------------------------------------------
(* C29                                                                     *)

\* the update_one of a _mark_job call of the monitor
MonitorMarks == last'.op = "_mark_job" /\ catalog' # catalog

ClosedStaysClosed ==
    \A id \in DOMAIN catalog :
        catalog[id].status = "closed" => catalog'[id].status = "closed"

\* the marks a cycle decides on when it has fetched the documents
CycleFetches == last'.op = "run_monitor_cycle" /\ sweep'.runs = sweep.runs + 1

MarksIn(todo, id) == {k \in DOMAIN todo : todo[k].id = id}

SourceClosedIsMarkedClosed ==
    \A id \in DOMAIN catalog :
        (catalog[id].status # "closed" /\ Lower(catalog[id].source_status) = "closed")
            => /\ Cardinality(MarksIn(sweep'.todo, id)) = 1
               /\ \A k \in MarksIn(sweep'.todo, id) : sweep'.todo[k].status = "closed"

\* within one cycle a job whose source reports it closed is marked closed and
\* not stale, whatever its age
C29_SourceClosedWinsOverStale == [][CycleFetches => SourceClosedIsMarkedClosed]_vars

\* C29: no _mark_job of the monitor changes the status of a job that is
\* closed, whatever mark_job_status calls run between the steps of the cycle;
\* and a cycle marks a fetched job whose source reports it closed as closed,
\* once, and not as stale, even when it was last seen before the threshold.
C29_MonitorLeavesClosedJobsAlone ==
    /\ [][MonitorMarks => ClosedStaysClosed]_vars
    /\ [][CycleFetches => SourceClosedIsMarkedClosed]_vars

\* a job past the threshold whose source reports "Closed" has been marked
\* closed by the monitor
C29_Witness ==
    /\ last.op = "_mark_job"
    /\ Get(last.result).status = "closed"
    /\ IsSome(catalog[Get(last.result).id].last_seen_active)
    /\ Get(catalog[Get(last.result).id].last_seen_active) < StaleThreshold(now)
    /\ catalog[Get(last.result).id].status = "closed"

-----------------------------------------------------------------------------
(* C30                                                                     *)

RecordsOf(cat, source, source_id) ==
    {k \in DOMAIN cat : cat[k].source = source /\ cat[k].source_id = source_id}

OneRecordPerPair(cat) ==
    \A i \in DOMAIN cat : RecordsOf(cat, cat[i].source, cat[i].source_id) = {i}

\* an upsert_job call returning
UpsertReturns == last'.op = "upsert_job" /\ last'.outcome \in {"updated", "inserted"}

ReturningPayload == Get(upserts[last'.user].payload)

\* a pair with a record: that record takes the payload, no document is added,
\* and its id is returned
ExistingPairIsUpdatedInPlace ==
    LET p == ReturningPayload
        ids == RecordsOf(catalog, p.source, p.source_id)
    IN  ids # {} =>
           /\ Len(catalog') = Len(catalog)
           /\ Get(last'.result) \in ids
           /\ catalog'[Get(last'.result)].title = p.title
           /\ \A k \in DOMAIN catalog : k # Get(last'.result) => catalog'[k] = catalog[k]

\* a pair without a record: one document is added for it and its id returned
NewPairIsInserted ==
    LET p == ReturningPayload
    IN  RecordsOf(catalog, p.source, p.source_id) = {} =>
           /\ Len(catalog') = Len(catalog) + 1
           /\ Get(last'.result) = Len(catalog')
           /\ catalog'[Len(catalog')].source = p.source
           /\ catalog'[Len(catalog')].source_id = p.source_id
           /\ SubSeq(catalog', 1, Len(catalog)) = catalog

\* C30: whatever upsert_job calls run, one after the other or interleaved,
\* jobs_collection holds at most one document per (source, source_id); a call
\* that returns for a pair with a document has updated that document in place
\* and returns its id, and only a call for a pair without one has inserted.
C30_OneRecordPerSourcePair ==
    /\ []OneRecordPerPair(catalog)
    /\ [][UpsertReturns => (ExistingPairIsUpdatedInPlace /\ NewPairIsInserted)]_vars

\* the answer of the call's find_one is still what find_one would answer
FindIsCurrent ==
    upserts[last'.user].existing
        = FindBySource(catalog, ReturningPayload.source, ReturningPayload.source_id)

\* an upsert_job whose find_one and write are not separated by another
\* call's write keeps one document per pair
C30_UndisturbedUpsertKeepsOneRecord ==
    [][(UpsertReturns /\ FindIsCurrent /\ OneRecordPerPair(catalog))
          => /\ OneRecordPerPair(catalog')
             /\ ExistingPairIsUpdatedInPlace
             /\ NewPairIsInserted]_vars

\* a record updated in place by a call that found it
C30_Witness ==
    /\ last.op = "upsert_job" /\ last.outcome = "updated"
    /\ OneRecordPerPair(catalog)
    /\ Len(catalog) = 2
    /\ catalog[Get(last.result)].title = "analyst"

====
